---- MODULE Spec2Model ----
(***************************************************************************)
(* A model of extproc (src/extproc.py): Cmd and Pipe objects, their stream *)
(* bindings (fd_objs), the child processes they start, and the module-wide *)
(* list JOBS.  The caller is one thread: an operation that blocks (run,    *)
(* capture, wait) holds the caller in `call` until the awaited child has   *)
(* exited; child processes run and exit on their own.                      *)
(***************************************************************************)
EXTENDS Integers, Sequences, FiniteSets, TLC

VARIABLES
    objs,    \* the Cmd and Pipe instances, by identity (index)
    files,   \* the file objects: opened paths, temporary files, pipe ends
    procs,   \* the child processes ever created (subprocess.Popen objects)
    JOBS,    \* extproc.JOBS
    call,    \* the blocking operation the caller is inside, or op = "none"
    ret,     \* outcome of the operation that completed last
    reg,     \* history: instances spawned with registration, not waited/killed since
    ncalls   \* history: how many operations the caller has invoked

vars == <<objs, files, procs, JOBS, call, ret, reg, ncalls>>

(***************************************************************************)
(* Bounds of the model.                                                    *)
(***************************************************************************)
\* How many operations the caller invokes.
MaxCalls == 3

(***************************************************************************)
(* Python values that occur as stream bindings and return codes.           *)
(***************************************************************************)
PyInt(n) == [t |-> "int", v |-> n]
PyFile(k) == [t |-> "file", v |-> k]
PyStr(k) == [t |-> "str", v |-> k]
None == [t |-> "None", v |-> 0]

STDIN == 0
STDOUT == 1
STDERR == 2
DEFAULT_FD == [k \in 0..2 |-> PyInt(k)]
PIPE == PyInt(-1)
ORIG_STDOUT == PyInt(-2)

\* A str is a sequence of characters; a command line is a list or a tuple
\* of words, a word being a sequence of characters too.  A run of letters
\* the model does not look into ("true", "cat") stands as one character.
CmdStr(chars) == [t |-> "str", v |-> chars]
PyList(words) == [t |-> "list", v |-> words]
PyTuple(words) == [t |-> "tuple", v |-> words]

PipeCmd == CmdStr(<<"PIPE, not a real command">>)

SIGKILL == 9
SIGPIPE == 13

\* The programs of the model, by how they end:
\*   "true"  exits 0 by itself (echo, head -n 10, sleep 1, true)
\*   "false" exits 1 by itself
\*   "yes"   writes to its stdout for ever; ends only by a signal
\*   "cat"   copies stdin to stdout; exits 0 at end of input
Progs == {"true", "false", "yes", "cat"}

\* A command line whose program does not exist: it cannot be executed.
NoSuchProg == "nosuch"

\* The command line [prog] and the program a command line executes: the
\* one its first word names.
Argv(prog) == PyList(<<<<prog>>>>)
Prog(cmd) ==
    IF cmd.v # <<>> /\ Len(cmd.v[1]) = 1 THEN cmd.v[1][1] ELSE NoSuchProg

is_fileno(F, n, f) ==
    \/ f = PyInt(n)
    \/ (f.t = "file" /\ F[f.v].fileno = n)

NewFile(F, kind) ==
    Append(F, [kind |-> kind, closed |-> FALSE, fileno |-> 3 + Len(F),
               closes |-> 0])

CloseFile(F, f) ==
    [F EXCEPT ![f.v].closed = TRUE, ![f.v].closes = @ + 1]

(***************************************************************************)
(* Construction.  A heap H is [objs, files].                               *)
(***************************************************************************)
EmptyHeap == [objs |-> <<>>, files |-> <<>>]

\* Which dictionary object self.e is: one that no other instance holds, or
\* the one dictionary that is the default value of the parameter e of
\* PythonProc.__init__, created once when the def statement is executed.
OwnDict == "own"
DefaultDict == "default"

\* x.e and y.e are the same dictionary object
SameDict(O, x, y) == O[x].eref = DefaultDict /\ O[y].eref = DefaultDict

\* The current contents of the default dictionary
DefaultE(O) == UNION {O[o].e : o \in {q \in DOMAIN O : O[q].eref = DefaultDict}}

\* Process._process_fd_pair for a valid key and a supported value:
\* the value stored in fd_objs, and the files after a path was opened.
process_fd_pair(F, stream_num, fd_descriptor) ==
    IF fd_descriptor.t = "str"
    THEN [files |-> NewFile(F, "path"), val |-> PyFile(Len(F) + 1)]
    ELSE IF fd_descriptor = PyInt(1) /\ stream_num = 2
    THEN [files |-> F, val |-> ORIG_STDOUT]
    ELSE [files |-> F, val |-> fd_descriptor]

\* Cmd.__init__(cmd, fd, e, cd); fd is a function on a subset of 0..2.
CmdInit(H, cmd, fd, e, cd) ==
    LET step(acc, k) ==
            IF k \in DOMAIN fd
            THEN LET r == process_fd_pair(acc.files, k, fd[k])
                 IN  [files |-> r.files,
                      fd_objs |-> [acc.fd_objs EXCEPT ![k] = r.val]]
            ELSE acc
        a0 == [files |-> H.files, fd_objs |-> DEFAULT_FD]
        a3 == step(step(step(a0, 0), 1), 2)
    IN  [objs |-> Append(H.objs,
                    [kind |-> "Cmd", cmd |-> cmd, e |-> e, env |-> e, cd |-> cd,
                     fd_objs |-> a3.fd_objs, cmds |-> <<>>, p |-> 0,
                     eref |-> OwnDict]),
         files |-> a3.files]

\* Pipe.__init__ without the `if _is_fileno(1, c.fd_objs[STDOUT])` test: the
\* stdout of every stage but the last is set to PIPE.
PipeInit_always_pipe(H, cmds, e) ==
    LET n == Len(cmds)
        O1 == [o \in DOMAIN H.objs |->
                 IF \E i \in 1..n : cmds[i] = o
                 THEN [H.objs[o] EXCEPT !.e = @ \cup e, !.env = @ \cup e]
                 ELSE IF \E i \in 1..n : SameDict(H.objs, cmds[i], o)
                 THEN [H.objs[o] EXCEPT !.e = @ \cup e]
                 ELSE H.objs[o]]
        O2 == [o \in DOMAIN O1 |->
                 IF \E i \in 1..(n-1) : cmds[i] = o
                 THEN [O1[o] EXCEPT !.fd_objs[STDOUT] = PIPE]
                 ELSE O1[o]]
    IN  [objs |-> Append(O2,
                    [kind |-> "Pipe", cmd |-> PipeCmd, e |-> e, env |-> e,
                     cd |-> O2[cmds[1]].cd,
                     fd_objs |-> [k \in 0..2 |->
                        IF k = STDIN THEN O2[cmds[1]].fd_objs[STDIN]
                        ELSE O2[cmds[n]].fd_objs[k]],
                     cmds |-> cmds, p |-> 0, eref |-> OwnDict]),
         files |-> H.files]

\* Pipe.__init__(*cmds, e=e)
PipeInit(H, cmds, e) ==
    LET n == Len(cmds)
        O1 == [o \in DOMAIN H.objs |->
                 IF \E i \in 1..n : cmds[i] = o
                 THEN [H.objs[o] EXCEPT !.e = @ \cup e, !.env = @ \cup e]
                 ELSE IF \E i \in 1..n : SameDict(H.objs, cmds[i], o)
                 THEN [H.objs[o] EXCEPT !.e = @ \cup e]
                 ELSE H.objs[o]]
        O2 == [o \in DOMAIN O1 |->
                 IF (\E i \in 1..(n-1) : cmds[i] = o)
                    /\ is_fileno(H.files, 1, O1[o].fd_objs[STDOUT])
                 THEN [O1[o] EXCEPT !.fd_objs[STDOUT] = PIPE]
                 ELSE O1[o]]
    IN  [objs |-> Append(O2,
                    [kind |-> "Pipe", cmd |-> PipeCmd, e |-> e, env |-> e,
                     cd |-> O2[cmds[1]].cd,
                     fd_objs |-> [k \in 0..2 |->
                        IF k = STDIN THEN O2[cmds[1]].fd_objs[STDIN]
                        ELSE O2[cmds[n]].fd_objs[k]],
                     cmds |-> cmds, p |-> 0, eref |-> OwnDict]),
         files |-> H.files]

(***************************************************************************)
(* Child processes.  S is [objs, files, procs].                            *)
(***************************************************************************)
NoKw == [x \in {} |-> None]

\* Process.popen_args (the stream part; args, cwd and env come from the object)
popen_args(O, o) ==
    [stdin |-> O[o].fd_objs[0], stdout |-> O[o].fd_objs[1],
     stderr |-> O[o].fd_objs[2]]

\* A Popen that takes stderr=subprocess.STDOUT for a descriptor of its own
\* instead of sending the child's stderr where its stdout goes.
Popen_stderr_apart(S, o, a) ==
  IF Prog(S.objs[o].cmd) = NoSuchProg THEN [S EXCEPT !.raised = "OSError"] ELSE
    LET piped == a.stdout = PIPE
        F == IF piped THEN NewFile(S.files, "pipe") ELSE S.files
        out == IF piped THEN PyFile(Len(F)) ELSE a.stdout
        pr == [owner |-> o, prog |-> Prog(S.objs[o].cmd), env |-> S.objs[o].env,
               stdin |-> a.stdin, stdout |-> out, stderr |-> a.stderr,
               fd_objs |-> [k \in 0..2 |-> IF k = STDOUT /\ piped THEN out ELSE None],
               alive |-> TRUE, status |-> 0, returncode |-> None]
    IN  [objs |-> S.objs, files |-> F, procs |-> Append(S.procs, pr),
         raised |-> ""]

\* subprocess.Popen(args, stdin, stdout, stderr) followed by decorate_popen:
\* stdout=PIPE makes a pipe whose read end the parent keeps as p.stdout;
\* stderr=subprocess.STDOUT sends the child's stderr where its stdout goes.
\* When the program cannot be executed Popen raises OSError: the child is
\* gone, the pipe it made is closed again, and no Popen object exists.
Popen(S, o, a) ==
  IF Prog(S.objs[o].cmd) = NoSuchProg THEN [S EXCEPT !.raised = "OSError"] ELSE
    LET piped == a.stdout = PIPE
        F == IF piped THEN NewFile(S.files, "pipe") ELSE S.files
        out == IF piped THEN PyFile(Len(F)) ELSE a.stdout
        err == IF a.stderr = ORIG_STDOUT THEN out ELSE a.stderr
        pr == [owner |-> o, prog |-> Prog(S.objs[o].cmd), env |-> S.objs[o].env,
               stdin |-> a.stdin, stdout |-> out, stderr |-> err,
               fd_objs |-> [k \in 0..2 |-> IF k = STDOUT /\ piped THEN out ELSE None],
               alive |-> TRUE, status |-> 0, returncode |-> None]
    IN  [objs |-> S.objs, files |-> F, procs |-> Append(S.procs, pr),
         raised |-> ""]

RECURSIVE running_fd_objs(_, _)
\* Cmd.running_fd_objs / Pipe.running_fd_objs
running_fd_objs(S, o) ==
    IF S.objs[o].kind = "Pipe"
    THEN LET cs == S.objs[o].cmds
         IN  [k \in 0..2 |->
                IF k = STDIN THEN running_fd_objs(S, cs[1])[STDIN]
                ELSE running_fd_objs(S, cs[Len(cs)])[k]]
    ELSE S.procs[S.objs[o].p].fd_objs

RECURSIVE popen(_, _, _)
RECURSIVE popen_stages(_, _, _, _)

RECURSIVE popen_stages_same_prev(_, _, _, _)
\* The same loop without `prev = c.running_fd_objs[STDOUT]`: every stage is
\* started on the stdin of the first.
popen_stages_same_prev(S, cs, prev, extra) ==
    IF cs = <<>> THEN [S |-> S, prev |-> prev]
    ELSE LET S1 == popen(S, Head(cs), [stdin |-> prev] @@ extra)
         IN  IF S1.raised # "" THEN [S |-> S1, prev |-> prev]
             ELSE popen_stages_same_prev(S1, Tail(cs), prev, extra)

\* The loop `for c in cs: c._popen(stdin=prev, **extra);
\* prev = c.running_fd_objs[STDOUT]`; returns the state and the last prev.
\* The loop ends at the first c._popen that raises.
popen_stages(S, cs, prev, extra) ==
    IF cs = <<>> THEN [S |-> S, prev |-> prev]
    ELSE LET S1 == popen(S, Head(cs), [stdin |-> prev] @@ extra)
         IN  IF S1.raised # "" THEN [S |-> S1, prev |-> prev]
             ELSE popen_stages(S1, Tail(cs),
                               running_fd_objs(S1, Head(cs))[STDOUT], extra)

\* Cmd._popen(**kwargs) and Pipe._popen(**kwargs)
popen(S, o, kwargs) ==
    LET a == kwargs @@ popen_args(S.objs, o)
    IN  IF S.objs[o].kind = "Pipe"
        THEN LET cs == S.objs[o].cmds
                 n == Len(cs)
                 r == popen_stages(S, SubSeq(cs, 1, n - 1), a.stdin, [stdout |-> PIPE])
             IN  IF r.S.raised # "" THEN r.S
                 ELSE popen(r.S, cs[n], [stdin |-> r.prev, stdout |-> a.stdout])
        ELSE LET S1 == Popen(S, o, a)
             IN  IF S1.raised # "" THEN S1
                 ELSE [S1 EXCEPT !.objs[o].p = Len(S1.procs)]

RECURSIVE Leaves(_, _)
\* The Cmd instances a start of o creates a process for, in order.
Leaves(O, o) ==
    IF O[o].kind = "Pipe"
    THEN LET RECURSIVE cat(_)
             cat(cs) == IF cs = <<>> THEN <<>> ELSE Leaves(O, Head(cs)) \o cat(Tail(cs))
         IN  cat(O[o].cmds)
    ELSE <<o>>

\* A pipe has a reader while the parent's end is open or a live child reads it.
HasReader(F, P, f) ==
    \/ ~F[f.v].closed
    \/ \E j \in DOMAIN P : P[j].alive /\ P[j].stdin = f

HasWriter(P, f) ==
    \E j \in DOMAIN P : P[j].alive /\ (P[j].stdout = f \/ P[j].stderr = f)

IsPipeFile(F, f) == f.t = "file" /\ F[f.v].kind = "pipe"

\* Whether process i can end by itself now, and with which status.
CanExit(F, P, i) ==
    /\ P[i].alive
    /\ CASE P[i].prog = "yes" ->
                IsPipeFile(F, P[i].stdout) /\ ~HasReader(F, P, P[i].stdout)
         [] P[i].prog = "cat" ->
                IsPipeFile(F, P[i].stdin) => ~HasWriter(P, P[i].stdin)
         [] OTHER -> TRUE

ExitStatus(prog) ==
    CASE prog = "yes" -> -SIGPIPE
      [] prog = "false" -> 1
      [] OTHER -> 0

\* Popen.terminate() in the place of Popen.kill(): the child dies of SIGTERM.
Killed_terminate(P, i) ==
    IF P[i].alive THEN [P EXCEPT ![i].alive = FALSE, ![i].status = -15] ELSE P

\* Popen.kill(): a live child dies of SIGKILL; otherwise nothing changes.
Killed(P, i) ==
    IF P[i].alive THEN [P EXCEPT ![i].alive = FALSE, ![i].status = -SIGKILL] ELSE P

\* Popen.wait() once the child has exited: fills and returns returncode.
Reaped(P, i) ==
    IF P[i].returncode = None
    THEN [P EXCEPT ![i].returncode = PyInt(P[i].status)] ELSE P

(***************************************************************************)
(* JOBS.                                                                   *)
(***************************************************************************)
\* x == y as list.remove evaluates it: identity, or Cmd.__eq__.
ObjEq(O, x, y) ==
    \/ x = y
    \/ /\ O[x].kind = "Cmd" \/ O[y].kind = "Cmd"
       /\ O[x].cmd = O[y].cmd
       /\ O[x].fd_objs = O[y].fd_objs
       /\ O[x].env = O[y].env
       /\ O[x].cd = O[y].cd

\* list.remove(value): drops the first item equal to value.
ListRemove(O, J, value) ==
    LET hits == {i \in 1..Len(J) : ObjEq(O, J[i], value)}
        i0 == CHOOSE i \in hits : \A j \in hits : i <= j
    IN  SubSeq(J, 1, i0 - 1) \o SubSeq(J, i0 + 1, Len(J))

RECURSIVE RemoveLoop(_, _, _, _)
\* `for job in JOBS: if job is self: JOBS.remove(self)`, from index i on.
RemoveLoop(O, J, self, i) ==
    IF i > Len(J) THEN J
    ELSE IF J[i] = self THEN RemoveLoop(O, ListRemove(O, J, self), self, i + 1)
    ELSE RemoveLoop(O, J, self, i + 1)

RemoveSelf(O, J, self) == RemoveLoop(O, J, self, 1)

\* c.wait() reaches self.cmds[-1].wait() of each Pipe on the way down to a
\* Cmd: the instances whose wait() runs, outermost first.
RECURSIVE WaitChain(_, _)
WaitChain(O, o) ==
    IF O[o].kind = "Pipe"
    THEN <<o>> \o WaitChain(O, O[o].cmds[Len(O[o].cmds)])
    ELSE <<o>>

WaitLeaf(O, o) == LET ch == WaitChain(O, o) IN ch[Len(ch)]

RECURSIVE RemoveAll(_, _, _)
\* The finally clauses of the wait() calls of a chain, innermost first.
RemoveAll(O, J, chain) ==
    IF chain = <<>> THEN J
    ELSE RemoveSelf(O, RemoveAll(O, J, Tail(chain)), Head(chain))

ChainSet(chain) == {chain[i] : i \in DOMAIN chain}

RECURSIVE returncode(_, _, _)
\* Cmd.returncode and Pipe.returncode
returncode(O, P, o) ==
    IF O[o].kind = "Pipe"
    THEN LET cs == O[o].cmds
             bad == {i \in 1..Len(cs) : returncode(O, P, cs[i]) # PyInt(0)}
         IN  IF bad = {} THEN PyInt(0)
             ELSE returncode(O, P, cs[CHOOSE i \in bad : \A j \in bad : i <= j])
    ELSE P[O[o].p].returncode

RECURSIVE close_pipes(_, _)
\* `for c in self.cmds[:-1]: if c.fd_objs[STDOUT] == PIPE:
\*      c.running_fd_objs[STDOUT].close()`
close_pipes(S, cs) ==
    IF cs = <<>> THEN S.files
    ELSE LET c == Head(cs)
             F == close_pipes(S, Tail(cs))
         IN  IF S.objs[c].fd_objs[STDOUT] = PIPE
             THEN CloseFile(F, running_fd_objs(S, c)[STDOUT])
             ELSE F

RECURSIVE kill(_, _, _)
\* Cmd.kill() and Pipe.kill(); K is [procs, JOBS, raised, reg]
kill(O, K, o) ==
    IF O[o].kind = "Pipe"
    THEN LET RECURSIVE each(_, _)
             each(K1, cs) ==
                 IF cs = <<>> \/ K1.raised # "" THEN K1
                 ELSE each(kill(O, K1, Head(cs)), Tail(cs))
             K2 == each(K, O[o].cmds)
         IN  [K2 EXCEPT !.JOBS = RemoveSelf(O, K2.JOBS, o), !.reg = @ \ {o}]
    ELSE IF O[o].p = 0
         THEN [K EXCEPT !.raised = "Exception"]
         ELSE [procs |-> Killed(K.procs, O[o].p),
               JOBS |-> RemoveSelf(O, K.JOBS, o), raised |-> "",
               reg |-> K.reg \ {o}]

RECURSIVE verify_capture_unchecked(_, _, _)
\* The same loop without _check_redirect_target: every captured stream is
\* rebound to a fresh temporary file, whatever it was bound to.
verify_capture_unchecked(S, o, fd) ==
    IF fd = <<>> THEN [S |-> S, raised |-> ""]
    ELSE LET n == Head(fd)
             F == NewFile(S.files, "tmp")
             S1 == [S EXCEPT !.files = F,
                             !.objs[o].fd_objs[n] = PyFile(Len(F))]
         IN  verify_capture_unchecked(S1, o, Tail(fd))

RECURSIVE verify_capture(_, _, _)
\* The loop `for stream_num in fd: fd_update_dict = _verify_capture_args(..);
\* self.fd_objs.update(fd_update_dict)`: the state it leaves and whether
\* _verify_capture_args or _check_redirect_target raised.
verify_capture(S, o, fd) ==
    IF fd = <<>> THEN [S |-> S, raised |-> ""]
    ELSE LET n == Head(fd)
         IN  IF n \notin {1, 2} THEN [S |-> S, raised |-> "NotImplementedError"]
             ELSE IF is_fileno(S.files, n, S.objs[o].fd_objs[n])
             THEN LET F == NewFile(S.files, "tmp")
                      S1 == [S EXCEPT !.files = F,
                                      !.objs[o].fd_objs[n] = PyFile(Len(F))]
                  IN  verify_capture(S1, o, Tail(fd))
             ELSE [S |-> S, raised |-> "ValueError"]

\* Process._cleanup_capture_dict(fd, fd_dict)
cleanup_capture_dict(F, fd, fd_dict) ==
    LET target == IF fd = STDOUT THEN STDERR ELSE STDOUT
        target_obj == fd_dict[target]
    IN  IF ~is_fileno(F, target, target_obj) /\ target_obj.t = "file"
        THEN CloseFile(F, target_obj)
        ELSE F

FdSet(fd) == {fd[i] : i \in DOMAIN fd}

\* The same stage without the test of the stage's own stdin: every stage
\* is started on the previous stage's output.
capture_stage_prev_only(S, o, c, prev, fd, last) ==
    LET F == IF last /\ STDOUT \in FdSet(fd) THEN NewFile(S.files, "tmp") ELSE S.files
        S1 == IF last /\ STDOUT \in FdSet(fd)
              THEN [S EXCEPT !.files = F,
                             !.objs[c].fd_objs[STDOUT] = PyFile(Len(F)),
                             !.objs[o].fd_objs[STDOUT] = PyFile(Len(F))]
              ELSE S
        S2 == IF STDERR \in FdSet(fd)
                 /\ is_fileno(S1.files, STDERR, S1.objs[c].fd_objs[STDERR])
              THEN [S1 EXCEPT !.objs[c].fd_objs[STDERR] = S1.objs[o].fd_objs[STDERR]]
              ELSE S1
        S3 == popen(S2, c, [stdin |-> prev])
    IN  [S |-> S3, prev |-> IF S3.raised # "" THEN prev
                            ELSE running_fd_objs(S3, c)[STDOUT]]

\* One stage of Pipe.capture's piping: the stage's own stdin wins over prev,
\* an inherited stderr is rebound to the shared buffer, the last stage's
\* stdout is rebound to a new temporary file; then c._popen(stdin=prev).
capture_stage(S, o, c, prev, fd, last) ==
    LET prev1 == IF ~is_fileno(S.files, STDIN, S.objs[c].fd_objs[STDIN])
                 THEN S.objs[c].fd_objs[STDIN] ELSE prev
        F == IF last /\ STDOUT \in FdSet(fd) THEN NewFile(S.files, "tmp") ELSE S.files
        S1 == IF last /\ STDOUT \in FdSet(fd)
              THEN [S EXCEPT !.files = F,
                             !.objs[c].fd_objs[STDOUT] = PyFile(Len(F)),
                             !.objs[o].fd_objs[STDOUT] = PyFile(Len(F))]
              ELSE S
        S2 == IF STDERR \in FdSet(fd)
                 /\ is_fileno(S1.files, STDERR, S1.objs[c].fd_objs[STDERR])
              THEN [S1 EXCEPT !.objs[c].fd_objs[STDERR] = S1.objs[o].fd_objs[STDERR]]
              ELSE S1
        S3 == popen(S2, c, [stdin |-> prev1])
    IN  [S |-> S3, prev |-> IF S3.raised # "" THEN prev1
                            ELSE running_fd_objs(S3, c)[STDOUT]]

RECURSIVE capture_stages(_, _, _, _, _)
capture_stages(S, o, cs, prev, fd) ==
    IF cs = <<>> \/ S.raised # "" THEN S
    ELSE LET r == capture_stage(S, o, Head(cs), prev, fd, Len(cs) = 1)
         IN  capture_stages(r.S, o, Tail(cs), r.prev, fd)

(***************************************************************************)
(* The state after construction: the instances the caller has built.       *)
(***************************************************************************)
TwoCmds(a, b, fd) ==
    CmdInit(CmdInit(EmptyHeap, Argv(a), NoKw, {}, None), Argv(b), fd, {}, None)

Heaps ==
    { TwoCmds("true", "true", NoKw),
      TwoCmds("yes", "true", 1 :> PyStr(1)),
      TwoCmds("true", "false", 2 :> PyInt(1)),
      PipeInit(TwoCmds("yes", "true", NoKw), <<1, 2>>, {}),
      PipeInit(TwoCmds("true", "cat", 1 :> PyStr(1)), <<1, 2>>, {}) }

\* nfiles: how many file objects existed when capture() was called
Idle == [op |-> "none", obj |-> 0, k |-> 0, fd |-> <<>>, pr |-> 0, func |-> FALSE,
         nfiles |-> 0, timeout |-> FALSE]
NoRet == [op |-> "none", obj |-> 0, raised |-> "", val |-> None,
          out |-> None, err |-> None, cb |-> 0]

InitWith(HS) ==
    /\ \E H \in HS : objs = H.objs /\ files = H.files
    /\ procs = <<>>
    /\ JOBS = <<>>
    /\ call = Idle
    /\ ret = NoRet
    /\ reg = {}
    /\ ncalls = 0

Init == InitWith(Heaps)

Cur == [objs |-> objs, files |-> files, procs |-> procs, raised |-> ""]

SetCur(S) == objs' = S.objs /\ files' = S.files /\ procs' = S.procs

Returns(op, o, val) ==
    ret' = [op |-> op, obj |-> o, raised |-> "", val |-> val,
            out |-> None, err |-> None, cb |-> 0]

Raises(op, o, exc) ==
    ret' = [op |-> op, obj |-> o, raised |-> exc, val |-> None,
            out |-> None, err |-> None, cb |-> 0]

\* The end of a wait(func) whose finally clause was reached: `if func: func()`
\* has run; cb counts the invocations of func.
Finally(op, o, exc, val, func) ==
    ret' = [op |-> op, obj |-> o, raised |-> exc, val |-> val,
            out |-> None, err |-> None, cb |-> IF func THEN 1 ELSE 0]

IsCmd(o) == o \in DOMAIN objs /\ objs[o].kind = "Cmd"
IsPipe(o) == o \in DOMAIN objs /\ objs[o].kind = "Pipe"

\* The caller, not inside any operation, invokes one.
Invoke ==
    /\ call = Idle
    /\ ncalls < MaxCalls
    /\ ncalls' = ncalls + 1

(***************************************************************************)
(* A child process ends by itself.                                         *)
(***************************************************************************)
ProcExit(i) ==
    /\ i \in DOMAIN procs
    /\ CanExit(files, procs, i)
    /\ procs' = [procs EXCEPT ![i].alive = FALSE,
                              ![i].status = ExitStatus(procs[i].prog)]
    /\ UNCHANGED <<objs, files, JOBS, call, ret, reg, ncalls>>

(***************************************************************************)
(* Cmd                                                                     *)
(***************************************************************************)
\* Cmd.spawn(append_to_jobs) without its `if self.p: raise` test
CmdSpawn_unguarded(o, append_to_jobs) ==
    /\ Invoke /\ IsCmd(o)
    /\ SetCur(popen(Cur, o, NoKw))
    /\ JOBS' = IF append_to_jobs THEN Append(JOBS, o) ELSE JOBS
    /\ reg' = IF append_to_jobs THEN reg \cup {o} ELSE reg
    /\ Returns("spawn", o, None)
    /\ UNCHANGED call

\* Cmd.spawn(append_to_jobs)
CmdSpawn(o, append_to_jobs) ==
    /\ Invoke /\ IsCmd(o)
    /\ IF objs[o].p # 0
       THEN /\ Raises("spawn", o, "Exception")
            /\ UNCHANGED <<objs, files, procs, JOBS, call, reg>>
       ELSE LET S1 == popen(Cur, o, NoKw)
            IN  /\ SetCur(S1)
                /\ IF S1.raised # ""
                   THEN /\ Raises("spawn", o, S1.raised)
                        /\ UNCHANGED <<JOBS, reg>>
                   ELSE /\ JOBS' = IF append_to_jobs THEN Append(JOBS, o) ELSE JOBS
                        /\ reg' = IF append_to_jobs THEN reg \cup {o} ELSE reg
                        /\ Returns("spawn", o, None)
                /\ UNCHANGED call

\* Cmd.kill()
CmdKill(o) ==
    /\ Invoke /\ IsCmd(o)
    /\ LET K == kill(objs, [procs |-> procs, JOBS |-> JOBS, raised |-> "",
                            reg |-> reg], o)
       IN  /\ procs' = K.procs /\ JOBS' = K.JOBS /\ reg' = K.reg
           /\ IF K.raised # "" THEN Raises("kill", o, K.raised)
              ELSE Returns("kill", o, None)
    /\ UNCHANGED <<objs, files, call>>

\* Cmd.wait(): the call, up to the blocking self.p.wait()
CmdWait(o) ==
    /\ Invoke /\ IsCmd(o)
    /\ IF objs[o].p = 0
       THEN /\ Raises("wait", o, "Exception")
            /\ UNCHANGED call
       ELSE /\ \E func \in BOOLEAN :
                  call' = [Idle EXCEPT !.op = "Cmd.wait", !.obj = o, !.func = func]
            /\ UNCHANGED ret
    /\ UNCHANGED <<objs, files, procs, JOBS, reg>>

\* Cmd.wait(): self.p.wait() returns, then the finally clause
CmdWaitReturn ==
    /\ call.op = "Cmd.wait"
    /\ LET o == call.obj
           i == objs[o].p
       IN  /\ ~procs[i].alive
           /\ procs' = Reaped(procs, i)
           /\ JOBS' = RemoveSelf(objs, JOBS, o)
           /\ reg' = reg \ {o}
           /\ Finally("wait", o, "", procs'[i].returncode, call.func)
    /\ call' = Idle
    /\ UNCHANGED <<objs, files, ncalls>>

\* Cmd.run(): subprocess.call(**self.popen_args), up to its wait
CmdRun(o) ==
    /\ Invoke /\ IsCmd(o)
    /\ LET S1 == Popen(Cur, o, popen_args(objs, o))
       IN  /\ SetCur(S1)
           /\ IF S1.raised # ""
              THEN Raises("run", o, S1.raised) /\ UNCHANGED call
              ELSE /\ call' = [Idle EXCEPT !.op = "Cmd.run", !.obj = o,
                                           !.pr = Len(procs) + 1]
                   /\ UNCHANGED ret
    /\ UNCHANGED <<JOBS, reg>>

CmdRunReturn ==
    /\ call.op = "Cmd.run"
    /\ ~procs[call.pr].alive
    /\ procs' = Reaped(procs, call.pr)
    /\ Returns("run", call.obj, procs'[call.pr].returncode)
    /\ call' = Idle
    /\ UNCHANGED <<objs, files, JOBS, reg, ncalls>>

CaptureArgs == {<<1>>, <<2>>, <<1, 2>>}

\* Cmd.capture(*fd) (Process.capture), up to the blocking p.wait()
CmdCapture(o, fd) ==
    /\ Invoke /\ IsCmd(o)
    /\ LET v == verify_capture(Cur, o, fd)
       IN  IF v.raised # ""
           THEN /\ SetCur(v.S)
                /\ Raises("capture", o, v.raised)
                /\ UNCHANGED call
           ELSE LET S1 == popen(v.S, o, NoKw)
                IN  /\ SetCur(S1)
                    /\ IF S1.raised # ""
                       THEN Raises("capture", o, S1.raised) /\ UNCHANGED call
                       ELSE /\ call' = [Idle EXCEPT !.op = "Cmd.capture",
                                                    !.obj = o, !.fd = fd,
                                                    !.nfiles = Len(files)]
                            /\ UNCHANGED ret
    /\ UNCHANGED <<JOBS, reg>>

CmdCaptureReturn ==
    /\ call.op = "Cmd.capture"
    /\ LET o == call.obj
           i == objs[o].p
           fd == call.fd
       IN  /\ ~procs[i].alive
           /\ procs' = Reaped(procs, i)
           /\ files' = IF FdSet(fd) # {1, 2}
                       THEN cleanup_capture_dict(files, fd[1], procs[i].fd_objs)
                       ELSE files
           /\ ret' = [op |-> "capture", obj |-> o, raised |-> "",
                      val |-> procs'[i].returncode,
                      out |-> objs[o].fd_objs[1], err |-> objs[o].fd_objs[2],
                      cb |-> 0]
    /\ call' = Idle
    /\ UNCHANGED <<objs, JOBS, reg, ncalls>>

(***************************************************************************)
(* Pipe                                                                    *)
(***************************************************************************)
\* Pipe.run(): the piping loop, up to the first c.wait()
PipeRun(o) ==
    /\ Invoke /\ IsPipe(o)
    /\ LET cs == objs[o].cmds
           r == popen_stages(Cur, cs, objs[cs[1]].fd_objs[STDIN], NoKw)
       IN  /\ SetCur(r.S)
           /\ IF r.S.raised # ""
              THEN Raises("run", o, r.S.raised) /\ UNCHANGED call
              ELSE /\ call' = [Idle EXCEPT !.op = "Pipe.run", !.obj = o, !.k = 1]
                   /\ UNCHANGED ret
    /\ UNCHANGED <<JOBS, reg>>

\* Pipe.spawn() with `JOBS.append(self)` moved before the piping
PipeSpawn_jobs_first(o) ==
    /\ Invoke /\ IsPipe(o)
    /\ IF objs[o].p # 0
       THEN /\ Raises("spawn", o, "Exception")
            /\ UNCHANGED <<objs, files, procs, JOBS, reg>>
       ELSE LET cs == objs[o].cmds
                n == Len(cs)
                r == popen_stages(Cur, SubSeq(cs, 1, n - 1),
                                  objs[cs[1]].fd_objs[STDIN], [stdout |-> PIPE])
                a == popen_args(objs, o)
                S1 == IF r.S.raised # "" THEN r.S
                      ELSE popen(r.S, cs[n], [stdin |-> r.prev, stdout |-> a.stdout,
                                              stderr |-> a.stderr])
            IN  /\ SetCur(S1)
                /\ JOBS' = Append(JOBS, o)
                /\ reg' = reg \cup {o}
                /\ IF S1.raised # "" THEN Raises("spawn", o, S1.raised)
                   ELSE Returns("spawn", o, None)
    /\ UNCHANGED call

\* Pipe.spawn()
PipeSpawn(o) ==
    /\ Invoke /\ IsPipe(o)
    /\ IF objs[o].p # 0
       THEN /\ Raises("spawn", o, "Exception")
            /\ UNCHANGED <<objs, files, procs, JOBS, reg>>
       ELSE LET cs == objs[o].cmds
                n == Len(cs)
                r == popen_stages(Cur, SubSeq(cs, 1, n - 1),
                                  objs[cs[1]].fd_objs[STDIN], [stdout |-> PIPE])
                a == popen_args(objs, o)
                S1 == IF r.S.raised # "" THEN r.S
                      ELSE popen(r.S, cs[n], [stdin |-> r.prev, stdout |-> a.stdout,
                                              stderr |-> a.stderr])
            IN  /\ SetCur(S1)
                /\ IF S1.raised # ""
                   THEN /\ Raises("spawn", o, S1.raised)
                        /\ UNCHANGED <<JOBS, reg>>
                   ELSE /\ JOBS' = Append(JOBS, o)
                        /\ reg' = reg \cup {o}
                        /\ Returns("spawn", o, None)
    /\ UNCHANGED call

\* Pipe.capture(*fd): the checks and the piping, up to the first c.wait()
PipeCapture(o, fd) ==
    /\ Invoke /\ IsPipe(o)
    /\ LET v == verify_capture(Cur, o, fd)
       IN  IF v.raised # ""
           THEN /\ SetCur(v.S)
                /\ Raises("capture", o, v.raised)
                /\ UNCHANGED call
           ELSE LET F == NewFile(v.S.files, "tmp")
                    S1 == IF STDERR \in FdSet(fd)
                          THEN [v.S EXCEPT !.files = F,
                                           !.objs[o].fd_objs[STDERR] = PyFile(Len(F))]
                          ELSE v.S
                    cs == objs[o].cmds
                    S2 == capture_stages(S1, o, cs, S1.objs[cs[1]].fd_objs[0], fd)
                IN  /\ SetCur(S2)
                    /\ IF S2.raised # ""
                       THEN Raises("capture", o, S2.raised) /\ UNCHANGED call
                       ELSE /\ call' = [Idle EXCEPT !.op = "Pipe.capture",
                                                    !.obj = o, !.fd = fd, !.k = 1,
                                                    !.nfiles = Len(files)]
                            /\ UNCHANGED ret
    /\ UNCHANGED <<JOBS, reg>>

\* In Pipe.run and Pipe.capture: `for c in self.cmds: c.wait()`, one stage
\* that is not the last.
PipeStageWaited ==
    /\ call.op \in {"Pipe.run", "Pipe.capture"}
    /\ call.k < Len(objs[call.obj].cmds)
    /\ LET c == objs[call.obj].cmds[call.k]
           chain == WaitChain(objs, c)
           i == objs[WaitLeaf(objs, c)].p
       IN  /\ ~procs[i].alive
           /\ procs' = Reaped(procs, i)
           /\ JOBS' = RemoveAll(objs, JOBS, chain)
           /\ reg' = reg \ ChainSet(chain)
    /\ call' = [call EXCEPT !.k = @ + 1]
    /\ UNCHANGED <<objs, files, ret, ncalls>>

\* Pipe.run(): the last c.wait() returns, the pipes are closed, run returns
PipeRunReturn ==
    /\ call.op = "Pipe.run"
    /\ call.k = Len(objs[call.obj].cmds)
    /\ LET o == call.obj
           cs == objs[o].cmds
           c == cs[call.k]
           chain == WaitChain(objs, c)
           i == objs[WaitLeaf(objs, c)].p
       IN  /\ ~procs[i].alive
           /\ procs' = Reaped(procs, i)
           /\ JOBS' = RemoveAll(objs, JOBS, chain)
           /\ reg' = reg \ ChainSet(chain)
           /\ files' = close_pipes(Cur, SubSeq(cs, 1, Len(cs) - 1))
           /\ Returns("run", o, returncode(objs, procs', o))
    /\ call' = Idle
    /\ UNCHANGED <<objs, ncalls>>

\* Pipe.capture(): the last c.wait() returns, files are closed, capture returns
PipeCaptureReturn ==
    /\ call.op = "Pipe.capture"
    /\ call.k = Len(objs[call.obj].cmds)
    /\ LET o == call.obj
           cs == objs[o].cmds
           c == cs[call.k]
           chain == WaitChain(objs, c)
           i == objs[WaitLeaf(objs, c)].p
           F1 == close_pipes(Cur, SubSeq(cs, 1, Len(cs) - 1))
       IN  /\ ~procs[i].alive
           /\ procs' = Reaped(procs, i)
           /\ JOBS' = RemoveAll(objs, JOBS, chain)
           /\ reg' = reg \ ChainSet(chain)
           /\ files' = IF FdSet(call.fd) # {1, 2}
                       THEN cleanup_capture_dict(F1, call.fd[1], objs[o].fd_objs)
                       ELSE F1
           /\ ret' = [op |-> "capture", obj |-> o, raised |-> "",
                      val |-> returncode(objs, procs', o),
                      out |-> objs[o].fd_objs[1], err |-> objs[o].fd_objs[2],
                      cb |-> 0]
    /\ call' = Idle
    /\ UNCHANGED <<objs, ncalls>>

\* Pipe.kill()
PipeKill(o) ==
    /\ Invoke /\ IsPipe(o)
    /\ LET K == kill(objs, [procs |-> procs, JOBS |-> JOBS, raised |-> "",
                            reg |-> reg], o)
       IN  /\ procs' = K.procs /\ JOBS' = K.JOBS /\ reg' = K.reg
           /\ IF K.raised # "" THEN Raises("kill", o, K.raised)
              ELSE Returns("kill", o, None)
    /\ UNCHANGED <<objs, files, call>>

\* Pipe.wait(): the call, up to the blocking self.cmds[-1].wait(); when the
\* last stage has no process its wait() raises and the finally clauses run.
PipeWait(o) ==
    /\ Invoke /\ IsPipe(o)
    /\ \E func \in BOOLEAN :
         LET chain == WaitChain(objs, o)
         IN  IF objs[chain[Len(chain)]].p = 0
             THEN /\ JOBS' = RemoveAll(objs, JOBS, SubSeq(chain, 1, Len(chain) - 1))
                  /\ reg' = reg \ ChainSet(SubSeq(chain, 1, Len(chain) - 1))
                  /\ Finally("wait", o, "Exception", None, func)
                  /\ UNCHANGED call
             ELSE /\ call' = [Idle EXCEPT !.op = "Pipe.wait", !.obj = o,
                                          !.func = func]
                  /\ UNCHANGED <<JOBS, reg, ret>>
    /\ UNCHANGED <<objs, files, procs>>

\* Pipe.wait(): the last stage's wait() returns, then the finally clauses
PipeWaitReturn ==
    /\ call.op = "Pipe.wait"
    /\ LET o == call.obj
           chain == WaitChain(objs, o)
           i == objs[chain[Len(chain)]].p
       IN  /\ ~procs[i].alive
           /\ procs' = Reaped(procs, i)
           /\ JOBS' = RemoveAll(objs, JOBS, chain)
           /\ reg' = reg \ ChainSet(chain)
           /\ Finally("wait", o, "", procs'[i].returncode, call.func)
    /\ call' = Idle
    /\ UNCHANGED <<objs, files, ncalls>>

Next ==
    \/ \E i \in DOMAIN procs : ProcExit(i)
    \/ \E o \in DOMAIN objs, b \in BOOLEAN : CmdSpawn(o, b)
    \/ \E o \in DOMAIN objs : CmdKill(o)
    \/ \E o \in DOMAIN objs : CmdWait(o)
    \/ CmdWaitReturn
    \/ \E o \in DOMAIN objs : CmdRun(o)
    \/ CmdRunReturn
    \/ \E o \in DOMAIN objs, fd \in CaptureArgs : CmdCapture(o, fd)
    \/ CmdCaptureReturn
    \/ \E o \in DOMAIN objs : PipeRun(o)
    \/ \E o \in DOMAIN objs : PipeSpawn(o)
    \/ \E o \in DOMAIN objs, fd \in CaptureArgs : PipeCapture(o, fd)
    \/ PipeStageWaited
    \/ PipeRunReturn
    \/ PipeCaptureReturn
    \/ \E o \in DOMAIN objs : PipeKill(o)
    \/ \E o \in DOMAIN objs : PipeWait(o)
    \/ PipeWaitReturn

Spec == Init /\ [][Next]_vars

(***************************************************************************)
(* Pipelines of two and three stages, flat and nested: the caller works on *)
(* the pipeline, and may kill or wait a single stage.                      *)
(***************************************************************************)
ThreeCmds(a, b, c) == CmdInit(TwoCmds(a, b, NoKw), Argv(c), NoKw, {}, None)

Flat2(a, b) == PipeInit(TwoCmds(a, b, NoKw), <<1, 2>>, {})
Nested2(a, b) == PipeInit(Flat2(a, b), <<3>>, {})
Flat3(a, b, c) == PipeInit(ThreeCmds(a, b, c), <<1, 2, 3>>, {})
\* (A | B) | C
Chain3(a, b, c) == PipeInit(PipeInit(ThreeCmds(a, b, c), <<1, 2>>, {}), <<4, 3>>, {})

Pipelines ==
    { Flat2("yes", "true"),
      Flat2("true", "cat"),
      Nested2("true", "true"),
      Flat3("true", "cat", "false"),
      Chain3("true", "cat", "false") }

PipeInit0 == InitWith(Pipelines)

\* o is a pipeline that is not a stage of another one
IsTop(o) ==
    /\ IsPipe(o)
    /\ \A q \in DOMAIN objs : \A i \in DOMAIN objs[q].cmds : objs[q].cmds[i] # o

PipeNext ==
    \/ \E i \in DOMAIN procs : ProcExit(i)
    \/ \E o \in DOMAIN objs : IsTop(o) /\ PipeRun(o)
    \/ \E o \in DOMAIN objs : IsTop(o) /\ PipeSpawn(o)
    \/ \E o \in DOMAIN objs, fd \in CaptureArgs : IsTop(o) /\ PipeCapture(o, fd)
    \/ PipeStageWaited
    \/ PipeRunReturn
    \/ PipeCaptureReturn
    \/ \E o \in DOMAIN objs : IsTop(o) /\ PipeKill(o)
    \/ \E o \in DOMAIN objs : IsTop(o) /\ PipeWait(o)
    \/ PipeWaitReturn
    \/ \E o \in DOMAIN objs : CmdKill(o)
    \/ \E o \in DOMAIN objs : CmdWait(o)
    \/ CmdWaitReturn

PipeSpec == PipeInit0 /\ [][PipeNext]_vars

(***************************************************************************)
(* The same three commands as a flat pipeline and as a chained one,        *)
(* (A | B) | C, each run or captured to the end.                           *)
(***************************************************************************)
\* Pipe(A, B, C) next to Cmd(A).pipe_to(Cmd(B)).pipe_to(Cmd(C))
FlatAndChained(a, b, c) ==
    LET H5 == CmdInit(Flat3(a, b, c), Argv(a), NoKw, {}, None)
        H6 == CmdInit(H5, Argv(b), NoKw, {}, None)
        H7 == CmdInit(H6, Argv(c), NoKw, {}, None)
        n == Len(H7.objs)
        H8 == PipeInit(H7, <<n - 2, n - 1>>, {})
    IN  PipeInit(H8, <<n + 1, n>>, {})

BothPipelines ==
    { FlatAndChained("true", "true", "true"),
      FlatAndChained("true", "cat", "false"),
      FlatAndChained("false", "cat", "cat"),
      FlatAndChained("true", "false", "true") }

EquivInit == InitWith(BothPipelines)

EquivNext ==
    \/ \E i \in DOMAIN procs : ProcExit(i)
    \/ \E o \in DOMAIN objs : IsTop(o) /\ PipeRun(o)
    \/ \E o \in DOMAIN objs : IsTop(o) /\ PipeCapture(o, <<STDOUT>>)
    \/ PipeStageWaited
    \/ PipeRunReturn
    \/ PipeCaptureReturn

EquivSpec == EquivInit /\ [][EquivNext]_vars

(***************************************************************************)
(* Pipelines whose stages carry redirections, extra environment variables  *)
(* or streams the caller opened; the caller may also capture a stage.      *)
(***************************************************************************)
\* A stream the caller opened itself, before constructing anything
CallerFile == [objs |-> <<>>, files |-> NewFile(<<>>, "caller")]

\* Pipe(Cmd(a, fd), Cmd(b))
RedirectedFirst(a, b, fd) ==
    PipeInit(CmdInit(CmdInit(EmptyHeap, Argv(a), fd, {}, None),
                     Argv(b), NoKw, {}, None),
             <<1, 2>>, {})

\* Pipe(Pipe(Cmd(a), Cmd(b)), Cmd(c), e=e)
NestedWithEnv(a, b, c, e) ==
    PipeInit(PipeInit(ThreeCmds(a, b, c), <<1, 2>>, {}), <<4, 3>>, e)

\* Pipe(Cmd(a), Cmd(b, {2: f})), f a stream the caller opened
CallerStderr(a, b) ==
    PipeInit(CmdInit(CmdInit(CallerFile, Argv(a), NoKw, {}, None),
                     Argv(b), 2 :> PyFile(1), {}, None),
             <<1, 2>>, {})

Wirings ==
    { RedirectedFirst("true", "cat", 1 :> PyStr(1)),
      RedirectedFirst("true", "true", 2 :> PyStr(1)),
      NestedWithEnv("true", "true", "cat", {"x"}),
      CallerStderr("true", "cat") }

WireInit == InitWith(Wirings)

WireNext ==
    \/ \E i \in DOMAIN procs : ProcExit(i)
    \/ \E o \in DOMAIN objs : IsTop(o) /\ PipeRun(o)
    \/ \E o \in DOMAIN objs : IsTop(o) /\ PipeSpawn(o)
    \/ \E o \in DOMAIN objs, fd \in CaptureArgs : IsTop(o) /\ PipeCapture(o, fd)
    \/ PipeStageWaited
    \/ PipeRunReturn
    \/ PipeCaptureReturn
    \/ \E o \in DOMAIN objs : IsTop(o) /\ PipeWait(o)
    \/ PipeWaitReturn
    \/ \E o \in DOMAIN objs, fd \in CaptureArgs : CmdCapture(o, fd)
    \/ CmdCaptureReturn

WireSpec == WireInit /\ [][WireNext]_vars

(***************************************************************************)
(* PythonProc: a stage whose child runs a Python function.  PyPopen forks, *)
(* and the parent then reads the error pipe, whose write end the child     *)
(* keeps until it exits.                                                   *)
(***************************************************************************)
\* PythonProc.__init__(py_func, fd, e, cd); py_func is named by what it does
PythonProcInit(H, py_func, fd, e, cd) ==
    LET H1 == CmdInit(H, Argv(py_func), fd, e, cd)
    IN  [H1 EXCEPT !.objs[Len(H1.objs)].kind = "PythonProc"]

\* PythonProc(py_func, fd, cd=cd): e is the default dictionary, with
\* whatever it holds by now (`self.e = e; self.env.update(e)`).
PythonProcDefault(H, py_func, fd, cd) ==
    LET H1 == PythonProcInit(H, py_func, fd, DefaultE(H.objs), cd)
    IN  [H1 EXCEPT !.objs[Len(H1.objs)].eref = DefaultDict]

IsPythonProc(o) == o \in DOMAIN objs /\ objs[o].kind = "PythonProc"

\* Cmd.spawn on a PythonProc, up to PyPopen._execute_child's read of the
\* error pipe: the child exists, self.p is not assigned yet.
\* For the time of the call, call.func holds the argument append_to_jobs.
PySpawn(o, append_to_jobs) ==
    /\ Invoke /\ IsPythonProc(o)
    /\ IF objs[o].p # 0
       THEN /\ Raises("spawn", o, "Exception")
            /\ UNCHANGED <<objs, files, procs, call>>
       ELSE /\ SetCur(Popen(Cur, o, popen_args(objs, o)))
            /\ call' = [Idle EXCEPT !.op = "PythonProc.spawn", !.obj = o,
                                    !.pr = Len(procs) + 1,
                                    !.func = append_to_jobs]
            /\ UNCHANGED ret
    /\ UNCHANGED <<JOBS, reg>>

\* The read of the error pipe returns (the child has exited and so closed
\* the write end); PyPopen returns, self.p is assigned, spawn returns.
PySpawnReturn ==
    /\ call.op = "PythonProc.spawn"
    /\ ~procs[call.pr].alive
    /\ objs' = [objs EXCEPT ![call.obj].p = call.pr]
    /\ JOBS' = IF call.func THEN Append(JOBS, call.obj) ELSE JOBS
    /\ reg' = IF call.func THEN reg \cup {call.obj} ELSE reg
    /\ Returns("spawn", call.obj, None)
    /\ call' = Idle
    /\ UNCHANGED <<files, procs, ncalls>>

\* Cmd('true') next to PythonProc(f) and PythonProc(g)
PyHeap(f, g) ==
    PythonProcDefault(
        PythonProcDefault(CmdInit(EmptyHeap, Argv("true"), NoKw, {}, None),
                          f, NoKw, None),
        g, NoKw, None)

PyHeaps == {PyHeap("true", "cat"), PyHeap("yes", "true"), PyHeap("false", "false")}

PyInit == InitWith(PyHeaps)

PyNext ==
    \/ \E i \in DOMAIN procs : ProcExit(i)
    \/ \E o \in DOMAIN objs, b \in BOOLEAN : PySpawn(o, b)
    \/ PySpawnReturn
    \/ \E o \in DOMAIN objs, b \in BOOLEAN : CmdSpawn(o, b)
    \/ \E o \in DOMAIN objs : CmdKill(o)
    \/ \E o \in DOMAIN objs : CmdWait(o)
    \/ CmdWaitReturn

PySpec == PyInit /\ [][PyNext]_vars

(***************************************************************************)
(* The caller constructs pipelines, possibly of pipelines, from instances  *)
(* that are not yet a stage of any pipeline, and spawns them.              *)
(***************************************************************************)
\* Cmd(a, fd1), Cmd(b, fd2), Cmd(c)
Parts(a, fd1, b, fd2, c) ==
    CmdInit(CmdInit(CmdInit(EmptyHeap, Argv(a), fd1, {}, None),
                    Argv(b), fd2, {}, None),
            Argv(c), NoKw, {}, None)

PartsHeaps ==
    { Parts("true", NoKw, "cat", NoKw, "true"),
      Parts("true", NoKw, "cat", 1 :> PyStr(1), "cat"),
      Parts("true", 2 :> PyInt(1), "cat", 0 :> PyStr(1), "false") }

\* o is not a stage of any pipeline
Free(o) ==
    \A q \in DOMAIN objs : \A i \in DOMAIN objs[q].cmds : objs[q].cmds[i] # o

\* The sequences of one to three different elements of S
Stages(S) ==
    {<<a>> : a \in S}
    \cup {q \in {<<a, b>> : a \in S, b \in S} : q[1] # q[2]}
    \cup {q \in {<<a, b, c>> : a \in S, b \in S, c \in S} :
             q[1] # q[2] /\ q[1] # q[3] /\ q[2] # q[3]}

\* Pipe(*cmds, e=e)
NewPipe(cmds, e) ==
    /\ Invoke
    /\ \A i \in DOMAIN cmds : Free(cmds[i])
    /\ LET H == PipeInit([objs |-> objs, files |-> files], cmds, e)
       IN  objs' = H.objs /\ files' = H.files
    /\ UNCHANGED <<procs, JOBS, call, ret, reg>>

BuildInit == InitWith(PartsHeaps)

BuildNext ==
    \/ \E cmds \in Stages(DOMAIN objs), e \in {{}, {"x"}} : NewPipe(cmds, e)
    \/ \E o \in DOMAIN objs : IsTop(o) /\ PipeSpawn(o)
    \/ \E i \in DOMAIN procs : ProcExit(i)

BuildSpec == BuildInit /\ [][BuildNext]_vars

(***************************************************************************)
(* Pipelines with a stage whose program does not exist, run and spawned.   *)
(***************************************************************************)
FailingPipelines ==
    { Flat2("yes", NoSuchProg),
      Flat2(NoSuchProg, "true"),
      Flat3("true", "cat", NoSuchProg),
      Chain3("yes", NoSuchProg, "true"),
      Flat2("true", "cat") }

FailInit == InitWith(FailingPipelines)

FailNext ==
    \/ \E i \in DOMAIN procs : ProcExit(i)
    \/ \E o \in DOMAIN objs : IsTop(o) /\ PipeRun(o)
    \/ \E o \in DOMAIN objs : IsTop(o) /\ PipeSpawn(o)
    \/ PipeStageWaited
    \/ PipeRunReturn
    \/ \E o \in DOMAIN objs : IsTop(o) /\ PipeKill(o)
    \/ \E o \in DOMAIN objs : IsTop(o) /\ PipeWait(o)
    \/ PipeWaitReturn
    \/ \E o \in DOMAIN objs : CmdKill(o)

FailSpec == FailInit /\ [][FailNext]_vars

(***************************************************************************)
(* Pipelines run, spawned and captured, one of them with a later stage     *)
(* that has its own stdin.                                                 *)
(***************************************************************************)
\* Pipe(Cmd(a), Cmd(b, fd))
RedirectedSecond(a, b, fd) ==
    PipeInit(CmdInit(CmdInit(EmptyHeap, Argv(a), NoKw, {}, None),
                     Argv(b), fd, {}, None),
             <<1, 2>>, {})

FedPipelines ==
    { RedirectedSecond("true", "cat", 0 :> PyStr(1)),
      Flat3("true", "cat", "true"),
      Chain3("true", "cat", "cat") }

FeedInit == InitWith(FedPipelines)

FeedNext ==
    \/ \E i \in DOMAIN procs : ProcExit(i)
    \/ \E o \in DOMAIN objs : IsTop(o) /\ PipeRun(o)
    \/ \E o \in DOMAIN objs : IsTop(o) /\ PipeSpawn(o)
    \/ \E o \in DOMAIN objs, fd \in CaptureArgs : IsTop(o) /\ PipeCapture(o, fd)
    \/ PipeStageWaited
    \/ PipeRunReturn
    \/ PipeCaptureReturn

FeedSpec == FeedInit /\ [][FeedNext]_vars

(***************************************************************************)
(* The tests' tearDown: Cmds and a pipeline are spawned, then every entry  *)
(* the loop over JOBS visits is killed.                                    *)
(***************************************************************************)
RECURSIVE tearDown(_, _, _)
\* `for c in JOBS: c.kill()`: the list iterator visits index i (from 1) of
\* the list as it is at that moment, and kill() removes entries meanwhile.
tearDown(O, K, i) ==
    IF i > Len(K.JOBS) \/ K.raised # "" THEN K
    ELSE tearDown(O, kill(O, K, K.JOBS[i]), i + 1)

TearDown ==
    /\ Invoke
    /\ LET K == tearDown(objs, [procs |-> procs, JOBS |-> JOBS, raised |-> "",
                                reg |-> reg], 1)
       IN  /\ procs' = K.procs /\ JOBS' = K.JOBS /\ reg' = K.reg
           /\ IF K.raised # "" THEN Raises("tearDown", 0, K.raised)
              ELSE Returns("tearDown", 0, None)
    /\ UNCHANGED <<objs, files, call>>

Jobs ==
    { TwoCmds("yes", "true", NoKw),
      TwoCmds("yes", "cat", 1 :> PyStr(1)),
      PipeInit(ThreeCmds("yes", "cat", "true"), <<1, 2>>, {}) }

TearInit == InitWith(Jobs)

TearNext ==
    \/ \E i \in DOMAIN procs : ProcExit(i)
    \/ \E o \in DOMAIN objs : Free(o) /\ CmdSpawn(o, TRUE)
    \/ \E o \in DOMAIN objs : PipeSpawn(o)
    \/ \E o \in DOMAIN objs : Free(o) /\ CmdWait(o)
    \/ CmdWaitReturn
    \/ TearDown

TearSpec == TearInit /\ [][TearNext]_vars

(***************************************************************************)
(* The constructor Cmd(cmd, fd, e, cd) as the caller invokes it, with its  *)
(* argument checks.  A command string is a sequence of characters, an      *)
(* argument vector a list or a tuple of words; the keys and values of fd   *)
(* are Python values.                                                      *)
(***************************************************************************)
Quote == "q"     \* the character "
Space == " "

RECURSIVE shlex_scan(_, _, _)
\* shlex.split(s): the words of s, split at spaces outside quotes; state is
\* "space" (between words), "word" or "quote" (inside quotes); cur is the
\* word read so far.  A quote left open raises ValueError.
shlex_scan(s, cur, state) ==
    IF s = <<>>
    THEN IF state = "quote" THEN [raised |-> "ValueError", val |-> <<>>]
         ELSE [raised |-> "", val |-> IF state = "word" THEN <<cur>> ELSE <<>>]
    ELSE LET c == Head(s)
         IN  IF state = "space"
             THEN IF c = Space THEN shlex_scan(Tail(s), <<>>, "space")
                  ELSE IF c = Quote THEN shlex_scan(Tail(s), <<>>, "quote")
                  ELSE shlex_scan(Tail(s), <<c>>, "word")
             ELSE IF state = "word"
             THEN IF c = Space
                  THEN LET r == shlex_scan(Tail(s), <<>>, "space")
                       IN  [r EXCEPT !.val = <<cur>> \o @]
                  ELSE IF c = Quote THEN shlex_scan(Tail(s), cur, "quote")
                  ELSE shlex_scan(Tail(s), Append(cur, c), "word")
             ELSE IF c = Quote THEN shlex_scan(Tail(s), cur, "word")
                  ELSE shlex_scan(Tail(s), Append(cur, c), "quote")

shlex_split(s) == shlex_scan(s, <<>>, "space")

\* Cmd._make_cmd(cmd_arg): the value of self.cmd, or the exception
make_cmd(cmd_arg) ==
    IF cmd_arg.t = "str"
    THEN LET r == shlex_split(cmd_arg.v)
         IN  [raised |-> r.raised, val |-> PyList(r.val)]
    ELSE IF cmd_arg.t \in {"list", "tuple"}
    THEN [raised |-> "", val |-> cmd_arg]
    ELSE [raised |-> "TypeError", val |-> None]

\* The checks of _process_fd_pair without the test of the key's range
fd_pair_error_any_key(stream_num, fd_descriptor) ==
    IF stream_num.t # "int" THEN "TypeError"
    ELSE IF fd_descriptor.t = "str" THEN ""
    ELSE IF fd_descriptor.t = "int"
    THEN IF stream_num.v = 2 /\ fd_descriptor.v = 1 THEN ""
         ELSE IF fd_descriptor.v \in {0, 1, 2} THEN "NotImplementedError"
         ELSE ""
    ELSE IF fd_descriptor.t = "file" THEN ""
    ELSE "AssertionError"

\* The checks of Process._process_fd_pair(stream_num, fd_descriptor): the
\* exception it raises, "" when it returns a value.
fd_pair_error(stream_num, fd_descriptor) ==
    IF stream_num.t # "int" THEN "TypeError"
    ELSE IF stream_num.v < 0 \/ stream_num.v >= 3 THEN "NotImplementedError"
    ELSE IF fd_descriptor.t = "str" THEN ""
    ELSE IF fd_descriptor.t = "int"
    THEN IF stream_num.v = 2 /\ fd_descriptor.v = 1 THEN ""
         ELSE IF fd_descriptor.v \in {0, 1, 2} THEN "NotImplementedError"
         ELSE ""
    ELSE IF fd_descriptor.t = "file" THEN ""
    ELSE "AssertionError"

\* The order in which fd.iteritems() yields the keys the model uses
KeyOrder == <<PyInt(0), PyInt(1), PyInt(2), PyInt(3), PyInt(-1), PyStr(1)>>

RECURSIVE fd_loop(_, _, _)
\* `for stream_num, fd_num in fd.iteritems(): self.fd_objs[stream_num] =
\* self._process_fd_pair(stream_num, fd_num)` from the i-th key on: the
\* files after it (paths are opened as they are met) and the exception that
\* ended it, if any.
fd_loop(F, fd, i) ==
    IF i > Len(KeyOrder) THEN [files |-> F, raised |-> ""]
    ELSE LET k == KeyOrder[i]
         IN  IF k \notin DOMAIN fd THEN fd_loop(F, fd, i + 1)
             ELSE IF fd_pair_error(k, fd[k]) # ""
             THEN [files |-> F, raised |-> fd_pair_error(k, fd[k])]
             ELSE fd_loop(process_fd_pair(F, k.v, fd[k]).files, fd, i + 1)

\* fd with the stream numbers themselves as keys
IntKeys(fd) == [n \in {m \in 0..2 : PyInt(m) \in DOMAIN fd} |-> fd[PyInt(n)]]

\* Cmd(cmd, fd=fd, e=e, cd=cd)
NewCmd(cmd, fd, e, cd) ==
    /\ Invoke
    /\ LET m == make_cmd(cmd)
           r == fd_loop(files, fd, 1)
       IN  IF m.raised # ""
           THEN /\ Raises("Cmd", 0, m.raised)
                /\ UNCHANGED <<objs, files>>
           ELSE IF r.raised # ""
           THEN /\ Raises("Cmd", 0, r.raised)
                /\ files' = r.files
                /\ UNCHANGED objs
           ELSE LET H == CmdInit([objs |-> objs, files |-> files], m.val,
                                 IntKeys(fd), e, cd)
                IN  /\ objs' = H.objs /\ files' = H.files
                    /\ Returns("Cmd", Len(H.objs), None)
    /\ UNCHANGED <<procs, JOBS, call, reg>>

(***************************************************************************)
(* Cmds constructed with every kind of fd argument, then spawned or run.   *)
(***************************************************************************)
\* The fd dictionaries the caller passes; PyFile(1) is a stream the caller
\* opened, 7 a descriptor number of the caller.
FdArgs ==
    { NoKw,
      PyInt(1) :> PyStr(1),
      PyInt(0) :> PyStr(1),
      PyInt(2) :> PyInt(1),
      PyInt(1) :> PyInt(1),
      PyInt(0) :> PyInt(0) @@ PyInt(1) :> PyInt(1) @@ PyInt(2) :> PyInt(2),
      PyInt(1) :> PyInt(2),
      PyInt(1) :> PyInt(7),
      PyInt(1) :> PyFile(1),
      PyInt(1) :> None,
      PyInt(3) :> PyStr(1),
      PyInt(-1) :> PyStr(1),
      PyStr(1) :> PyStr(1),
      PyInt(1) :> PyStr(1) @@ PyInt(3) :> PyStr(2) }

FdInit == InitWith({CallerFile})

FdNext ==
    \/ \E fd \in FdArgs : NewCmd(Argv("true"), fd, {}, None)
    \/ \E o \in DOMAIN objs : CmdSpawn(o, TRUE)
    \/ \E o \in DOMAIN objs : CmdRun(o)
    \/ CmdRunReturn
    \/ \E i \in DOMAIN procs : ProcExit(i)

FdSpec == FdInit /\ [][FdNext]_vars

(***************************************************************************)
(* Cmds constructed from command strings, lists and tuples, with and       *)
(* without a redirection to a path.                                        *)
(***************************************************************************)
CmdArgs ==
    { CmdStr(<<"a">>),
      CmdStr(<<"a", Space, "b">>),
      CmdStr(<<"a", Space, Quote, "b", Space, "b", Quote>>),
      CmdStr(<<>>),
      CmdStr(<<Space>>),
      CmdStr(<<Quote>>),
      PyList(<< <<"a">> >>),
      PyList(<< <<"a">>, <<"b">> >>),
      PyList(<< <<"a">>, <<"b", Space, "b">> >>),
      PyList(<<>>),
      PyTuple(<< <<"a">> >>),
      PyTuple(<<>>),
      PyInt(5),
      None }

ArgInit == InitWith({EmptyHeap})

ArgNext ==
    \E cmd \in CmdArgs, fd \in {NoKw, PyInt(1) :> PyStr(1)} :
        NewCmd(cmd, fd, {}, None)

ArgSpec == ArgInit /\ [][ArgNext]_vars

(***************************************************************************)
(* capture with timeout=t, the extension of later revisions that the       *)
(* tests in src/test_extproc call: capture starts as without a timeout,    *)
(* and when the deadline passes while a child of the pipeline is running   *)
(* the children are killed, after which the waits and capture return.      *)
(***************************************************************************)
\* Cmd.capture(*fd, timeout=t), up to the wait
CmdCaptureTimeout(o, fd) ==
    /\ Invoke /\ IsCmd(o)
    /\ LET v == verify_capture(Cur, o, fd)
       IN  IF v.raised # ""
           THEN /\ SetCur(v.S)
                /\ Raises("capture", o, v.raised)
                /\ UNCHANGED call
           ELSE LET S1 == popen(v.S, o, NoKw)
                IN  /\ SetCur(S1)
                    /\ IF S1.raised # ""
                       THEN Raises("capture", o, S1.raised) /\ UNCHANGED call
                       ELSE /\ call' = [Idle EXCEPT !.op = "Cmd.capture",
                                                    !.obj = o, !.fd = fd,
                                                    !.nfiles = Len(files),
                                                    !.timeout = TRUE]
                            /\ UNCHANGED ret
    /\ UNCHANGED <<JOBS, reg>>

\* Pipe.capture(*fd, timeout=t), up to the first wait
PipeCaptureTimeout(o, fd) ==
    /\ Invoke /\ IsPipe(o)
    /\ LET v == verify_capture(Cur, o, fd)
       IN  IF v.raised # ""
           THEN /\ SetCur(v.S)
                /\ Raises("capture", o, v.raised)
                /\ UNCHANGED call
           ELSE LET F == NewFile(v.S.files, "tmp")
                    S1 == IF STDERR \in FdSet(fd)
                          THEN [v.S EXCEPT !.files = F,
                                           !.objs[o].fd_objs[STDERR] = PyFile(Len(F))]
                          ELSE v.S
                    cs == objs[o].cmds
                    S2 == capture_stages(S1, o, cs, S1.objs[cs[1]].fd_objs[0], fd)
                IN  /\ SetCur(S2)
                    /\ IF S2.raised # ""
                       THEN Raises("capture", o, S2.raised) /\ UNCHANGED call
                       ELSE /\ call' = [Idle EXCEPT !.op = "Pipe.capture",
                                                    !.obj = o, !.fd = fd, !.k = 1,
                                                    !.nfiles = Len(files),
                                                    !.timeout = TRUE]
                            /\ UNCHANGED ret
    /\ UNCHANGED <<JOBS, reg>>

\* The processes of the instance a capture is waiting for.
Awaited == {objs[Leaves(objs, call.obj)[i]].p : i \in DOMAIN Leaves(objs, call.obj)}

RECURSIVE KillAll(_, _)
KillAll(P, ps) ==
    IF ps = {} THEN P
    ELSE LET i == CHOOSE i \in ps : TRUE
         IN  KillAll(Killed(P, i), ps \ {i})

\* The deadline of a capture with a timeout passes while a child is running:
\* the children are killed.
Deadline ==
    /\ call.op \in {"Cmd.capture", "Pipe.capture"}
    /\ call.timeout
    /\ \E i \in Awaited : procs[i].alive
    /\ procs' = KillAll(procs, Awaited)
    /\ UNCHANGED <<objs, files, JOBS, call, ret, reg, ncalls>>

\* Pipe(Cmd(a))
Single(a) == PipeInit(CmdInit(EmptyHeap, Argv(a), NoKw, {}, None), <<1>>, {})

Slow ==
    { TwoCmds("yes", "true", NoKw),
      Single("yes"),
      Flat2("yes", "true"),
      Flat2("true", "cat") }

TimeoutNext ==
    \/ \E i \in DOMAIN procs : ProcExit(i)
    \/ \E o \in DOMAIN objs, fd \in CaptureArgs : CmdCapture(o, fd)
    \/ \E o \in DOMAIN objs, fd \in CaptureArgs : CmdCaptureTimeout(o, fd)
    \/ \E o \in DOMAIN objs, fd \in CaptureArgs : IsTop(o) /\ PipeCapture(o, fd)
    \/ \E o \in DOMAIN objs, fd \in CaptureArgs : IsTop(o) /\ PipeCaptureTimeout(o, fd)
    \/ Deadline
    \/ CmdCaptureReturn
    \/ PipeStageWaited
    \/ PipeCaptureReturn

TimeoutSpec == InitWith(Slow) /\ [][TimeoutNext]_vars

(***************************************************************************)
(* Captures with arguments that capture() refuses among those it accepts.  *)
(***************************************************************************)
AnyCaptureArgs == CaptureArgs \cup {<<0>>, <<1, 0>>, <<2, 1>>}

Refusing ==
    { TwoCmds("true", "false", 2 :> PyInt(1)),
      TwoCmds("true", "cat", 1 :> PyStr(1)),
      RedirectedSecond("true", "cat", 2 :> PyStr(1)) }

RefuseNext ==
    \/ \E i \in DOMAIN procs : ProcExit(i)
    \/ \E o \in DOMAIN objs, fd \in AnyCaptureArgs : CmdCapture(o, fd)
    \/ \E o \in DOMAIN objs, fd \in AnyCaptureArgs : IsTop(o) /\ PipeCapture(o, fd)
    \/ CmdCaptureReturn
    \/ PipeStageWaited
    \/ PipeCaptureReturn

RefuseSpec == InitWith(Refusing) /\ [][RefuseNext]_vars

(***************************************************************************)
(* Extra environment variables: the caller builds pipelines with and       *)
(* without extras from Cmds and PythonProcs, constructs further            *)
(* PythonProcs without extras, and spawns PythonProcs.                     *)
(***************************************************************************)
\* PythonProc(py_func)
NewPythonProc(py_func) ==
    /\ Invoke
    /\ LET H == PythonProcDefault([objs |-> objs, files |-> files], py_func, NoKw, None)
       IN  /\ objs' = H.objs /\ files' = H.files
           /\ Returns("PythonProc", Len(H.objs), None)
    /\ UNCHANGED <<procs, JOBS, call, reg>>

\* Cmd('cat', e={'y': ..}) next to PythonProc(f) and PythonProc(g)
EnvHeap(f, g) ==
    PythonProcDefault(
        PythonProcDefault(CmdInit(EmptyHeap, Argv("cat"), NoKw, {"y"}, None),
                          f, NoKw, None),
        g, NoKw, None)

EnvHeaps == {EnvHeap("true", "false"), PyHeap("true", "true")}

EnvNext ==
    \/ \E cmds \in Stages(DOMAIN objs), e \in {{}, {"x"}} : NewPipe(cmds, e)
    \/ \E f \in {"true"} : NewPythonProc(f)
    \/ \E o \in DOMAIN objs, b \in BOOLEAN : PySpawn(o, b)
    \/ PySpawnReturn
    \/ \E i \in DOMAIN procs : ProcExit(i)

EnvSpec == InitWith(EnvHeaps) /\ [][EnvNext]_vars

(***************************************************************************)
(* Properties                                                              *)
(***************************************************************************)
InJobs(o) == \E i \in DOMAIN JOBS : JOBS[i] = o
Count(J, o) == Cardinality({i \in DOMAIN J : J[i] = o})
ProcsOf(o) == {i \in DOMAIN procs : procs[i].owner = o}
RECURSIVE Within(_, _)
Within(O, o) ==
    {o} \cup UNION {Within(O, O[o].cmds[i]) : i \in DOMAIN O[o].cmds}
Redirected(o, n) == ~is_fileno(files, n, objs[o].fd_objs[n])

\* C1: capture of a stream whose binding (for a Pipe: its boundary binding)
\* is not the parent's own stream raises, starts no child process and
\* leaves that binding as it was.
C1_CaptureOfRedirectedRaises ==
    [][\A o \in DOMAIN objs, fd \in CaptureArgs :
          ( /\ CmdCapture(o, fd) \/ PipeCapture(o, fd)
            /\ \E n \in FdSet(fd) : Redirected(o, n) )
          => /\ ret'.op = "capture" /\ ret'.obj = o /\ ret'.raised = "ValueError"
             /\ call' = Idle
             /\ procs' = procs
             /\ \A n \in FdSet(fd) :
                   Redirected(o, n) => objs'[o].fd_objs[n] = objs[o].fd_objs[n]
      ]_vars

\* A Pipe whose last stage writes to a file was asked for its stdout.
C1_Witness ==
    /\ ret.op = "capture" /\ ret.raised = "ValueError"
    /\ IsPipe(ret.obj)
    /\ objs[ret.obj].fd_objs[STDOUT].t = "file"
    /\ files[objs[ret.obj].fd_objs[STDOUT].v].kind = "path"
    /\ procs = <<>>

\* C2: whenever the caller is between operations, an instance is in JOBS
\* exactly when it was spawned with registration and neither waited nor
\* killed since.
C2_InJobsIffSpawnedNotWaited ==
    call = Idle => \A o \in DOMAIN objs : InJobs(o) <=> o \in reg

\* C3: kill() or wait() on an instance that is registered in JOBS (JOBS
\* holding no instance twice) removes that instance from JOBS and leaves
\* every other entry in place, whatever else JOBS holds; the only other
\* entries that may go are the stages on which the call itself calls kill()
\* or wait().
C3_RemovesOnlyItself ==
    [][\A o \in DOMAIN objs :
          ( /\ InJobs(o)
            /\ \A x \in DOMAIN objs : Count(JOBS, x) <= 1
            /\ \/ CmdKill(o) /\ ret'.raised = ""
               \/ PipeKill(o) /\ ret'.raised = ""
               \/ CmdWaitReturn /\ call.obj = o
               \/ PipeWaitReturn /\ call.obj = o )
          => /\ ~InJobs(o)'
             /\ SelectSeq(JOBS', LAMBDA x : x \notin Within(objs, o))
                  = SelectSeq(JOBS, LAMBDA x : x \notin Within(objs, o))
      ]_vars

\* C4: no Cmd instance ever has more than one child process created for it.
C4_OneProcessPerCmd ==
    \A o \in DOMAIN objs : IsCmd(o) => Cardinality(ProcsOf(o)) <= 1

\* C5: spawn() on a Cmd that already has a process raises, starts no
\* process and leaves JOBS as it was.
C5_SecondSpawnRaises ==
    [][\A o \in DOMAIN objs, b \in BOOLEAN :
          (CmdSpawn(o, b) /\ objs[o].p # 0)
          => /\ ret'.op = "spawn" /\ ret'.obj = o /\ ret'.raised # ""
             /\ procs' = procs
             /\ JOBS' = JOBS
      ]_vars

\* A Cmd that was spawned (it is in JOBS) was spawned again, and that raised.
C5_Witness ==
    /\ ret.op = "spawn" /\ ret.raised = "Exception"
    /\ IsCmd(ret.obj) /\ InJobs(ret.obj)
    /\ Cardinality(ProcsOf(ret.obj)) = 1

\* C6: no instance occurs more than once in JOBS (a second spawn() of a
\* Pipe fails and starts nothing).
C6_NoDuplicateJobs ==
    \A o \in DOMAIN objs : Count(JOBS, o) <= 1

PipelineProcs(o) == {i \in DOMAIN procs : procs[i].owner \in Within(objs, o)}
Exited(i) == ~procs[i].alive
Waited(i) == procs[i].returncode # None

\* C7: Pipe.run() and Pipe.capture() do not deadlock: while one of them is
\* in progress there is always a step that can happen, a child exiting or
\* the wait the call is blocked in returning.
C7_RunAndCaptureNeverStuck ==
    call.op \in {"Pipe.run", "Pipe.capture"}
    => ENABLED ( \/ \E i \in DOMAIN procs : ProcExit(i)
                 \/ PipeStageWaited
                 \/ PipeRunReturn
                 \/ PipeCaptureReturn )

\* C8: when Pipe.run() or Pipe.capture() has returned, every process of the
\* pipeline, those of stages that are Pipes included, has exited and has
\* been waited on.
C8_ReturnedPipeFullyWaited ==
    ( /\ call = Idle
      /\ ret.op \in {"run", "capture"} /\ ret.raised = ""
      /\ IsPipe(ret.obj) )
    => \A i \in PipelineProcs(ret.obj) : Exited(i) /\ Waited(i)

\* C9: the chained pipeline (A | B) | C gives what the flat Pipe(A, B, C)
\* gives: run() returns the same status, capture(1) the same exit_status.
C9_ChainedLikeFlat ==
    [][ ( /\ ret.raised = ""
          /\ IsTop(ret.obj) /\ ret.obj # call.obj
          /\ \/ PipeRunReturn /\ ret.op = "run"
             \/ PipeCaptureReturn /\ ret.op = "capture" )
        => ret'.val = ret.val
      ]_vars

\* C10: when Pipe.wait() has returned and the Pipe is no longer in JOBS,
\* every stage of the pipeline has exited.
C10_WaitedPipeAllExited ==
    ( /\ call = Idle
      /\ ret.op = "wait" /\ ret.raised = ""
      /\ IsPipe(ret.obj) /\ ~InJobs(ret.obj) )
    => \A i \in PipelineProcs(ret.obj) : Exited(i)

\* C11: kill() on a spawned Cmd whose process has not exited leaves the Cmd
\* out of JOBS, and the wait() that follows returns the status of the
\* killing signal.
C11_KilledLeavesJobsAndWaitReturns ==
    [][\A o \in DOMAIN objs :
          /\ ( /\ CmdKill(o) /\ InJobs(o)
               /\ objs[o].p # 0 /\ procs[objs[o].p].alive )
             => ~InJobs(o)'
          /\ ( /\ CmdWaitReturn /\ call.obj = o
               /\ procs[objs[o].p].status = -SIGKILL )
             => ret'.val = PyInt(-SIGKILL)
      ]_vars

\* C12: the value Pipe.run() returns, and the exit_status Pipe.capture()
\* returns, is 0 when every stage's process exited with status 0, and
\* otherwise the status of the first one, in pipeline order, that did not.
C12_FirstNonZeroStatus ==
    [][ (PipeRunReturn \/ PipeCaptureReturn)
        => LET ls == Leaves(objs, call.obj)
               st(k) == procs'[objs[ls[k]].p]
               bad == {k \in 1..Len(ls) : st(k).status # 0}
           IN  (\A k \in 1..Len(ls) : ~st(k).alive)
               => ret'.val = IF bad = {} THEN PyInt(0)
                             ELSE PyInt(st(CHOOSE k \in bad :
                                             \A j \in bad : k <= j).status)
      ]_vars

\* C13: Pipe.spawn() connects stdin, stdout and stderr of every stage to the
\* endpoints Pipe.run() connects them to for the same pipeline, a non-final
\* stage with an explicitly redirected stdout included.
C13_SpawnWiresLikeRun ==
    [][\A o \in DOMAIN objs :
          (PipeSpawn(o) /\ ret'.raised = "")
          => LET cs == objs[o].cmds
                 r == popen_stages(Cur, cs, objs[cs[1]].fd_objs[STDIN], NoKw)
             IN  \A i \in DOMAIN procs' :
                    /\ i \in DOMAIN r.S.procs
                    /\ procs'[i].stdin = r.S.procs[i].stdin
                    /\ procs'[i].stdout = r.S.procs[i].stdout
                    /\ procs'[i].stderr = r.S.procs[i].stderr
      ]_vars

\* C14: every process started for a stage of a Pipe constructed with extra
\* environment variables e, stages of nested Pipes included, has e in its
\* environment.
C14_PipeEnvReachesEveryProcess ==
    \A o \in DOMAIN objs :
       IsTop(o) => \A i \in PipelineProcs(o) : objs[o].e \subseteq procs[i].env

\* C15: in Pipe.capture with stream 2 requested, the process of every stage
\* whose stderr binding was the parent's stderr, stages of nested Pipes
\* included, writes its stderr to the buffer returned as Capture.stderr, and
\* a stage whose stderr was redirected keeps its binding.
C15_SharedStderrBuffer ==
    [][\A o \in DOMAIN objs, fd \in CaptureArgs :
          (PipeCapture(o, fd) /\ STDERR \in FdSet(fd) /\ call'.op = "Pipe.capture")
          => LET ls == Leaves(objs, o)
             IN  \A k \in 1..Len(ls) :
                    LET c == ls[k]
                    IN  IF is_fileno(files, STDERR, objs[c].fd_objs[STDERR])
                        THEN procs'[objs'[c].p].stderr = objs'[o].fd_objs[STDERR]
                        ELSE objs'[c].fd_objs[STDERR] = objs[c].fd_objs[STDERR]
      ]_vars

IsBuffer(F, f) == f.t = "file" /\ F[f.v].kind = "tmp"

\* C16: the record capture(streams) returns has a buffer as stdout if 1 was
\* requested and None otherwise, and a buffer as stderr if 2 was requested
\* and None otherwise.
C16_CaptureFieldsBufferOrNone ==
    [][ (CmdCaptureReturn \/ PipeCaptureReturn)
        => /\ IF STDOUT \in FdSet(call.fd)
              THEN IsBuffer(files', ret'.out) ELSE ret'.out = None
           /\ IF STDERR \in FdSet(call.fd)
              THEN IsBuffer(files', ret'.err) ELSE ret'.err = None
      ]_vars

\* C17: capture() never closes a stream object the caller passed in as a
\* binding, and when a capture of one stream returns, the other output
\* stream, if the library opened it from a path, is closed.
C17_CaptureClosesOnlyItsOwn ==
    [][ (CmdCaptureReturn \/ PipeCaptureReturn)
        => /\ \A k \in DOMAIN files :
                (files[k].kind = "caller" /\ ~files[k].closed) => ~files'[k].closed
           /\ \A n \in {STDOUT, STDERR} \ FdSet(call.fd) :
                LET f == objs[call.obj].fd_objs[n]
                IN  (f.t = "file" /\ files[f.v].kind = "path") => files'[f.v].closed
      ]_vars

NeverStarted(o) ==
    LET ls == Leaves(objs, o) IN \A k \in 1..Len(ls) : objs[ls[k]].p = 0

\* C18: kill() and wait() on a Cmd or Pipe that was never spawned raise and
\* do nothing else: JOBS is unchanged, no process changes, and a callback
\* given to wait() is not invoked.
C18_NothingToKillOrWait ==
    [][\A o \in DOMAIN objs :
          ( /\ NeverStarted(o)
            /\ CmdKill(o) \/ CmdWait(o) \/ PipeKill(o) \/ PipeWait(o) )
          => /\ ret'.obj = o /\ ret'.raised # ""
             /\ call' = Idle
             /\ JOBS' = JOBS /\ procs' = procs
             /\ ret'.cb = 0
      ]_vars

\* C19: wait(func) on a spawned Cmd or Pipe invokes func exactly once, when
\* the waited process has exited and the instance is out of JOBS; spawn()
\* never invokes a callback.
C19_CallbackOnceAfterRemoval ==
    [][\A o \in DOMAIN objs :
          /\ ( /\ CmdWaitReturn \/ PipeWaitReturn
               /\ call.obj = o /\ call.func /\ InJobs(o) )
             => /\ ret'.cb = 1
                /\ ~procs'[objs[WaitLeaf(objs, o)].p].alive
                /\ ~InJobs(o)'
          /\ ((\E b \in BOOLEAN : CmdSpawn(o, b)) \/ PipeSpawn(o))
             => ret'.cb = 0
      ]_vars

\* C20: wait() called twice on a spawned Cmd or Pipe returns the same status
\* both times without raising, the instance being out of JOBS after each
\* call; a wait() that follows kill() does not raise either.
C20_WaitIdempotent ==
    [][\A o \in DOMAIN objs :
          /\ ( /\ CmdWaitReturn \/ PipeWaitReturn
               /\ call.obj = o )
             => /\ ret'.raised = ""
                /\ ~InJobs(o)'
                /\ (ret.op = "wait" /\ ret.obj = o /\ ret.raised = "")
                   => ret'.val = ret.val
          /\ ( /\ CmdWait(o) \/ PipeWait(o)
               /\ ret.op \in {"kill", "wait"} /\ ret.obj = o /\ ret.raised = "" )
             => ret'.raised = ""
      ]_vars

\* C21: spawn() never blocks: once the child exists spawn can return,
\* whether or not the child has exited.
C21_SpawnNeverBlocks ==
    call.op = "PythonProc.spawn" => ENABLED PySpawnReturn

\* C22: constructing Pipe(stage1..stageN) sets to PIPE the stdout of every
\* stage but the last that was bound to the parent's stdout, leaves every
\* redirected stdout and the last stage's bindings as they were, and gives
\* the Pipe the bindings (first stage's stdin, last stage's stdout and
\* stderr).
C22_PipeConstruction ==
    [][ Len(objs') = Len(objs) + 1
        => LET new == Len(objs')
               cmds == objs'[new].cmds
               n == Len(cmds)
           IN  /\ objs'[new].kind = "Pipe" /\ n >= 1
               /\ \A i \in 1..(n - 1) :
                     objs'[cmds[i]].fd_objs[STDOUT] =
                        IF is_fileno(files, STDOUT, objs[cmds[i]].fd_objs[STDOUT])
                        THEN PIPE ELSE objs[cmds[i]].fd_objs[STDOUT]
               /\ objs'[cmds[n]].fd_objs = objs[cmds[n]].fd_objs
               /\ objs'[new].fd_objs[STDIN] = objs[cmds[1]].fd_objs[STDIN]
               /\ objs'[new].fd_objs[STDOUT] = objs[cmds[n]].fd_objs[STDOUT]
               /\ objs'[new].fd_objs[STDERR] = objs[cmds[n]].fd_objs[STDERR]
      ]_vars

\* A pipeline of three stages was constructed whose first stage got PIPE and
\* whose second stage kept the file its stdout was redirected to.
C22_Witness ==
    \E o \in DOMAIN objs :
       /\ IsPipe(o) /\ Len(objs[o].cmds) = 3
       /\ objs[objs[o].cmds[1]].fd_objs[STDOUT] = PIPE
       /\ objs[objs[o].cmds[2]].fd_objs[STDOUT].t = "file"

\* C23: capture() does not raise because a child exited with a status other
\* than 0: when the process of the Cmd, or of a stage of the pipeline, has
\* exited with a status n # 0, capture returns the buffers of the captured
\* streams and, as exit_status, such a status n.
C23_CaptureReturnsNonZeroStatus ==
    [][ (CmdCaptureReturn \/ PipeCaptureReturn)
        => LET ls == Leaves(objs, call.obj)
               bad == {procs'[objs[ls[k]].p].status :
                         k \in {j \in 1..Len(ls) :
                                  /\ ~procs'[objs[ls[j]].p].alive
                                  /\ procs'[objs[ls[j]].p].status # 0}}
           IN  /\ ret'.raised = ""
               /\ \A n \in FdSet(call.fd) :
                     IsBuffer(files', IF n = STDOUT THEN ret'.out ELSE ret'.err)
               /\ bad # {} => \E n \in bad : ret'.val = PyInt(n)
      ]_vars

\* C24: for a spawned Pipe, returncode reads None while a process of a
\* stage is running and, once the processes of all the stages have exited,
\* the status of the pipeline (0, or the first status that is not 0),
\* whether or not the caller has called wait().
C24_SpawnedPipeReturncode ==
    \A o \in DOMAIN objs :
       (IsTop(o) /\ InJobs(o) /\ ~NeverStarted(o) /\ call = Idle)
       => LET ls == Leaves(objs, o)
              st(k) == procs[objs[ls[k]].p]
              bad == {k \in 1..Len(ls) : st(k).status # 0}
          IN  returncode(objs, procs, o) =
                IF \E k \in 1..Len(ls) : st(k).alive THEN None
                ELSE IF bad = {} THEN PyInt(0)
                ELSE PyInt(st(CHOOSE k \in bad : \A j \in bad : k <= j).status)

\* C25: when the process of a stage cannot be created during Pipe.run() or
\* Pipe.spawn(), the error is raised to the caller, the processes of the
\* stages before it have been created and none of them, nor any other
\* process, is killed, and the Pipe is not added to JOBS.
C25_FailedStageLeavesEarlierRunning ==
    [][\A o \in DOMAIN objs :
          LET ls == Leaves(objs, o)
              bad == {k \in 1..Len(ls) : Prog(objs[ls[k]].cmd) = NoSuchProg}
              first == CHOOSE k \in bad : \A j \in bad : k <= j
          IN  ((PipeRun(o) \/ PipeSpawn(o)) /\ bad # {})
              => /\ ret'.raised = "OSError"
                 /\ call' = Idle
                 /\ Len(procs') = Len(procs) + first - 1
                 /\ \A k \in 1..(first - 1) :
                       /\ objs'[ls[k]].p = Len(procs) + k
                       /\ procs'[Len(procs) + k].alive
                 /\ \A i \in DOMAIN procs : procs'[i] = procs[i]
                 /\ JOBS' = JOBS /\ ~InJobs(o)'
      ]_vars

C25_Witness ==
    /\ ret.op \in {"run", "spawn"} /\ ret.raised = "OSError"
    /\ IsPipe(ret.obj) /\ ~InJobs(ret.obj)
    /\ \E i \in PipelineProcs(ret.obj) : procs[i].alive /\ procs[i].prog = "yes"

\* C26: when Pipe.run(), Pipe.spawn() or Pipe.capture() starts the
\* pipeline, the processes of stage i+1 are created after those of stage i,
\* and when the stdout of stage i is bound to PIPE the stdin of stage i+1 is
\* the open read end of the pipe stage i writes its stdout to.
C26_NextStageReadsPreviousPipe ==
    [][\A o \in DOMAIN objs :
          ( /\ \/ PipeRun(o) \/ PipeSpawn(o)
               \/ \E fd \in CaptureArgs : PipeCapture(o, fd)
            /\ Len(procs') > Len(procs) )
          => LET cs == objs[o].cmds
                 new(c) == {i \in DOMAIN procs' \ DOMAIN procs :
                              procs'[i].owner \in Within(objs, c)}
                 S == [objs |-> objs', files |-> files', procs |-> procs']
             IN  \A i \in 1..(Len(cs) - 1) :
                   /\ \A x \in new(cs[i]), y \in new(cs[i + 1]) : x < y
                   /\ objs'[cs[i]].fd_objs[STDOUT] = PIPE
                      => LET out == running_fd_objs(S, cs[i])[STDOUT]
                             nxt == Leaves(objs, cs[i + 1])[1]
                         IN  /\ IsPipeFile(files', out) /\ ~files'[out.v].closed
                             /\ procs'[objs'[Leaves(objs, cs[i])[Len(Leaves(objs, cs[i]))]].p].stdout = out
                             /\ procs'[objs'[nxt].p].stdin = out
      ]_vars

\* C26 (amended): the same for Pipe.run() and Pipe.spawn(), and for
\* Pipe.capture() when stage i+1 has inherited stdin: the processes of stage
\* i+1 are created after those of stage i, and when the stdout of stage i is
\* bound to PIPE, stage i+1 reads the open read end of the pipe stage i
\* writes to.  In Pipe.capture() a stage with its own stdin is created in
\* the same order but reads its own binding.
C26_NextStageReadsPreviousPipeUnlessOwnStdin ==
    [][\A o \in DOMAIN objs :
          ( /\ \/ PipeRun(o) \/ PipeSpawn(o)
               \/ \E fd \in CaptureArgs : PipeCapture(o, fd)
            /\ Len(procs') > Len(procs) )
          => LET cs == objs[o].cmds
                 new(c) == {i \in DOMAIN procs' \ DOMAIN procs :
                              procs'[i].owner \in Within(objs, c)}
                 S == [objs |-> objs', files |-> files', procs |-> procs']
                 captured == \E fd \in CaptureArgs : PipeCapture(o, fd)
             IN  \A i \in 1..(Len(cs) - 1) :
                   /\ \A x \in new(cs[i]), y \in new(cs[i + 1]) : x < y
                   /\ ( /\ objs'[cs[i]].fd_objs[STDOUT] = PIPE
                        /\ captured => is_fileno(files, STDIN, objs[cs[i + 1]].fd_objs[STDIN]) )
                      => LET out == running_fd_objs(S, cs[i])[STDOUT]
                             nxt == Leaves(objs, cs[i + 1])[1]
                         IN  /\ IsPipeFile(files', out) /\ ~files'[out.v].closed
                             /\ procs'[objs'[Leaves(objs, cs[i])[Len(Leaves(objs, cs[i]))]].p].stdout = out
                             /\ procs'[objs'[nxt].p].stdin = out
      ]_vars

C26_Witness ==
    /\ call.op \in {"Pipe.run", "Pipe.capture"}
    /\ LET cs == objs[call.obj].cmds
       IN  /\ Len(cs) = 3
           /\ \A i \in 1..2 :
                /\ IsPipeFile(files, procs[objs[cs[i]].p].stdout)
                /\ procs[objs[cs[i + 1]].p].stdin = procs[objs[cs[i]].p].stdout
                /\ objs[cs[i]].p < objs[cs[i + 1]].p

\* C27: Pipe.kill() on a spawned Pipe returns without raising, whether or
\* not some stages have exited already; the process of every stage that was
\* still running has been killed, the process of a stage that had exited is
\* as it was, and afterwards the Pipe is not in JOBS.
C27_PipeKillEveryStage ==
    [][\A o \in DOMAIN objs :
          (PipeKill(o) /\ InJobs(o))
          => LET ls == Leaves(objs, o)
             IN  /\ ret'.raised = ""
                 /\ \A k \in 1..Len(ls) :
                       LET i == objs[ls[k]].p
                       IN  /\ i # 0
                           /\ procs'[i] = IF procs[i].alive
                                          THEN [procs[i] EXCEPT !.alive = FALSE,
                                                                !.status = -SIGKILL]
                                          ELSE procs[i]
                 /\ ~InJobs(o)'
      ]_vars

\* C28: when Pipe.run() or Pipe.capture() returns, the parent's end of the
\* pipe of every stage that writes to a pipe, stages of stages included,
\* is closed, was closed once, and was still open while the stages were
\* being started and waited for.
C28_IntermediatePipesClosedOnce ==
    [][ (PipeRunReturn \/ PipeCaptureReturn)
        => LET ls == Leaves(objs, call.obj)
           IN  \A k \in 1..Len(ls) :
                  LET f == procs[objs[ls[k]].p].fd_objs[STDOUT]
                  IN  f # None
                      => /\ files[f.v].closes = 0
                         /\ files'[f.v].closed
                         /\ files'[f.v].closes = 1
      ]_vars

\* C29: when Cmd.capture() or Pipe.capture() returns, every temporary file
\* it created is one of the two buffers it returns or is closed.
C29_CaptureBuffersReturnedOrClosed ==
    [][ (CmdCaptureReturn \/ PipeCaptureReturn)
        => \A k \in (call.nfiles + 1)..Len(files') :
              files'[k].kind = "tmp"
              => \/ files'[k].closed
                 \/ ret'.out = PyFile(k)
                 \/ ret'.err = PyFile(k)
      ]_vars

\* C30: the loop `for c in JOBS: c.kill()` returns without raising, leaves
\* every process of every job that was in JOBS not running, and leaves JOBS
\* empty, however many jobs were registered.
C30_TearDownKillsAllJobs ==
    [][ TearDown
        => /\ ret'.raised = ""
           /\ \A j \in DOMAIN JOBS :
                 LET ls == Leaves(objs, JOBS[j])
                 IN  \A k \in 1..Len(ls) : ~procs'[objs[ls[k]].p].alive
           /\ JOBS' = <<>>
      ]_vars

\* C31: constructing a Cmd creates no process and opens no file: the
\* processes and the file objects are the same after Cmd(...) as before.
C31_ConstructionTouchesNothing ==
    [][\A fd \in FdArgs :
          NewCmd(Argv("true"), fd, {}, None)
          => procs' = procs /\ files' = files
      ]_vars

\* Two Cmds of the construction runs above were given the same redirects:
\* none, or stream 1 to the one path.
SameRedirects(x, y) ==
    \A k \in 0..2 :
       \/ objs[x].fd_objs[k] = objs[y].fd_objs[k]
       \/ /\ objs[x].fd_objs[k].t = "file" /\ objs[y].fd_objs[k].t = "file"
          /\ files[objs[x].fd_objs[k].v].kind = "path"
          /\ files[objs[y].fd_objs[k].v].kind = "path"

\* C32: two Cmds constructed from argument vectors (lists or tuples) or
\* strings that have the same words, with the same redirects, the same
\* extra environment and the same directory, compare equal.
C32_SameArgumentsEqual ==
    \A x \in DOMAIN objs, y \in DOMAIN objs :
       ( /\ objs[x].cmd.v = objs[y].cmd.v
         /\ SameRedirects(x, y)
         /\ objs[x].e = objs[y].e /\ objs[x].cd = objs[y].cd )
       => ObjEq(objs, x, y)

\* C33: Cmd(cmd, fd) with fd binding a stream k to the integer k itself
\* ({1: 1}, or {0: 0, 1: 1, 2: 2}) is constructed without an error and has
\* the bindings of a Cmd constructed with no redirect.
C33_SelfBindingIsNoRedirect ==
    [][\A fd \in FdArgs :
          ( /\ NewCmd(Argv("true"), fd, {}, None)
            /\ DOMAIN fd # {}
            /\ \A k \in DOMAIN fd : k.t = "int" /\ k.v \in 0..2 /\ fd[k] = k )
          => /\ ret'.raised = ""
             /\ Len(objs') = Len(objs) + 1
             /\ objs'[Len(objs')].fd_objs = DEFAULT_FD
      ]_vars

C35_BadCommandRejected ==
    [][\A cmd \in CmdArgs, fd \in {NoKw, PyInt(1) :> PyStr(1)} :
          ( /\ NewCmd(cmd, fd, {}, None)
            /\ \/ cmd.t \notin {"str", "list", "tuple"}
               \/ cmd.t \in {"list", "tuple"} /\ cmd.v = <<>>
               \/ cmd.t = "str" /\ \A i \in DOMAIN cmd.v : cmd.v[i] = Space )
          => ret'.raised # "" /\ objs' = objs
      ]_vars

\* C36: when capture(1) of a Cmd constructed with {2: 1} returns, the child
\* wrote its stdout and its stderr to one temporary file, that file is the
\* stdout of the result, and it is open and was never closed.
C36_StderrFollowsCapturedStdout ==
    [][( /\ CmdCaptureReturn
         /\ call.fd = <<1>>
         /\ objs[call.obj].fd_objs[STDERR] = ORIG_STDOUT )
       => LET pr == procs[objs[call.obj].p]
          IN  /\ IsBuffer(files', ret'.out)
              /\ pr.stdout = ret'.out
              /\ pr.stderr = ret'.out
              /\ ~files'[ret'.out.v].closed
              /\ files'[ret'.out.v].closes = 0
      ]_vars

C36_Witness ==
    /\ ret.op = "capture" /\ ret.raised = ""
    /\ IsCmd(ret.obj)
    /\ objs[ret.obj].fd_objs[STDERR] = ORIG_STDOUT
    /\ IsBuffer(files, ret.out)
    /\ procs[objs[ret.obj].p].stderr = ret.out
    /\ ~files[ret.out.v].closed

\* C37: when Pipe.capture() has started a pipeline, a stage after the first
\* whose stdin was bound at construction reads the file of its own binding,
\* and a stage after the first with inherited stdin reads the open pipe that
\* the stage before it writes its stdout to.
C37_OwnStdinWinsInCapture ==
    [][\A o \in DOMAIN objs, fd \in CaptureArgs :
          ( PipeCapture(o, fd) /\ call'.op = "Pipe.capture" )
          => LET cs == objs[o].cmds
                 S == [objs |-> objs', files |-> files', procs |-> procs']
             IN  \A i \in 2..Len(cs) :
                   LET own == objs[cs[i]].fd_objs[STDIN]
                       leaf == Leaves(objs, cs[i])[1]
                       before == Leaves(objs, cs[i - 1])
                       out == procs'[objs'[before[Len(before)]].p].stdout
                       pin == procs'[objs'[leaf].p].stdin
                   IN  IF ~is_fileno(files, STDIN, own)
                       THEN pin = own /\ pin # out
                       ELSE objs[cs[i - 1]].fd_objs[STDOUT] = PIPE
                            => /\ pin = out
                               /\ pin = running_fd_objs(S, cs[i - 1])[STDOUT]
                               /\ IsPipeFile(files', pin)
                               /\ ~files'[pin.v].closed
      ]_vars

C37_Witness ==
    /\ call.op = "Pipe.capture"
    /\ LET cs == objs[call.obj].cmds
       IN  /\ IsCmd(cs[2])
           /\ objs[cs[2]].fd_objs[STDIN].t = "file"
           /\ procs[objs[cs[2]].p].stdin = objs[cs[2]].fd_objs[STDIN]
           /\ IsPipeFile(files, procs[objs[cs[1]].p].stdout)

C39_FailedCaptureKeepsBindings ==
    [][\A o \in DOMAIN objs, fd \in AnyCaptureArgs :
          ( /\ CmdCapture(o, fd) \/ PipeCapture(o, fd)
            /\ ret'.raised \in {"ValueError", "NotImplementedError"} )
          => objs'[o].fd_objs = objs[o].fd_objs
      ]_vars

\* C40: constructing a Pipe with extra environment variables changes
\* neither the extras dictionary nor the environment of an instance that is
\* not a stage of that Pipe, and a PythonProc constructed without extras has
\* no extras in its dictionary and in its environment.
C40_ExtrasStayWithTheirPipe ==
    [][/\ \A cmds \in Stages(DOMAIN objs), e \in {{}, {"x"}} :
            NewPipe(cmds, e)
            => \A o \in DOMAIN objs :
                 (\A i \in DOMAIN cmds : cmds[i] # o)
                 => objs'[o].e = objs[o].e /\ objs'[o].env = objs[o].env
       /\ \A f \in {"true"} :
            NewPythonProc(f)
            => /\ objs'[Len(objs')].e = {}
               /\ objs'[Len(objs')].env = {}
      ]_vars
====
